---- MODULE Spec2Model ----
(***************************************************************************)
(* Model of the style-value parsers of takumi-helpers (src/jsx):           *)
(* color-parsing.ts, style-parsing.ts, style-parser.ts and utils.ts.       *)
(*                                                                         *)
(* Strings are sequences of one-character strings, so that slicing,        *)
(* splitting, prefix tests and number parsing are computed character by    *)
(* character as the code does.  JavaScript values are tagged records:      *)
(*   [num |-> [n, d]]        a finite number n/d (d > 0, reduced)          *)
(*   [nan |-> TRUE]          NaN                                           *)
(*   [neg, hex]              an integer kept as its hexadecimal digits     *)
(*                           (packed colors exceed the checker's integers) *)
(*   [str |-> s]             a string                                      *)
(*   [unit, val, id]         an object {unit: val}; id is its identity     *)
(*   [arr |-> <<...>>]       an array                                      *)
(*   [undef |-> TRUE]        undefined                                     *)
(*   [null |-> TRUE]         null                                          *)
(*   [obj |-> f]             a style object, f from property names to      *)
(*                           values; [bag |-> f] the object parseStyle     *)
(*                           returns                                       *)
(* A call returns [ok |-> value] or [throw |-> message].                   *)
(*                                                                         *)
(* The parsers are functions, applied in one step.  The loop of            *)
(* tokenizeGridTrackList, the image response (part_032) and the conversion *)
(* from JSX (jsx.ts) are modelled step by step, further below.             *)
(***************************************************************************)
EXTENDS Integers, Sequences, FiniteSets, TLC

VARIABLES pc, fn, arg, ret, utils

\* The state of the operations modelled step by step: the locals of the loop
\* of tokenizeGridTrackList; the module state of the image response
\* (renderer, fontLoadMarker) and the responses being produced; the style
\* objects (heap) and the nodes of a conversion from JSX
VARIABLES tokenizer, renderer, fontLoadMarker, responses, heap, nodes

stepVars == <<tokenizer, renderer, fontLoadMarker, responses, heap, nodes>>

vars == <<pc, fn, arg, ret, utils, stepVars>>

(***************************************************************************)
(* Bounds                                                                  *)
(***************************************************************************)
MaxHexLen == 9

MaxRgbArgs == 4

MaxSideTokens == 5

MaxProps == 2

MaxStops == 4

MaxShadowLengths == 5

MaxGridItems == 4

MaxWeightDigits == 4

MaxLengthDigits == 2

MaxTrackChars == 5

MaxResponses == 3

MaxElements == 2

(***************************************************************************)
(* Characters and strings                                                  *)
(***************************************************************************)
DecDigits == <<"0", "1", "2", "3", "4", "5", "6", "7", "8", "9">>

HexLower == <<"0", "1", "2", "3", "4", "5", "6", "7", "8", "9",
              "a", "b", "c", "d", "e", "f">>

HexUpper == <<"0", "1", "2", "3", "4", "5", "6", "7", "8", "9",
              "A", "B", "C", "D", "E", "F">>

DecChars == {DecDigits[i] : i \in 1..10}

HexChars == {HexLower[i] : i \in 1..16} \cup {HexUpper[i] : i \in 1..16}

Whitespace == {" "}

DigitVal(c) == CHOOSE v \in 0..15 : HexLower[v + 1] = c \/ HexUpper[v + 1] = c

Take(s, k) == SubSeq(s, 1, k)

Drop(s, k) == SubSeq(s, k + 1, Len(s))

\* Length of the longest prefix of s made of characters of the set cs.
SpanLen(s, cs) ==
  CHOOSE k \in 0..Len(s) :
    /\ \A i \in 1..k : s[i] \in cs
    /\ k < Len(s) => s[k + 1] \notin cs

\* Length of the longest suffix of s made of characters of the set cs.
SpanLenEnd(s, cs) ==
  CHOOSE k \in 0..Len(s) :
    /\ \A i \in (Len(s) - k + 1)..Len(s) : s[i] \in cs
    /\ k < Len(s) => s[Len(s) - k] \notin cs

trimStart(s) == Drop(s, SpanLen(s, Whitespace))

trim(s) == LET t == trimStart(s) IN Take(t, Len(t) - SpanLenEnd(t, Whitespace))

startsWith(s, p) == Len(s) >= Len(p) /\ SubSeq(s, 1, Len(p)) = p

\* String.prototype.slice(from, -1)
sliceButLast(s, from) == SubSeq(s, from + 1, Len(s) - 1)

RECURSIVE split(_, _)
\* String.prototype.split(c) for a one-character separator
split(s, c) ==
  IF \A i \in 1..Len(s) : s[i] # c
  THEN <<s>>
  ELSE LET i == CHOOSE j \in 1..Len(s) : s[j] = c /\ \A k \in 1..(j - 1) : s[k] # c
       IN  <<Take(s, i - 1)>> \o split(Drop(s, i), c)

RECURSIVE splitWhitespace(_)
\* String.prototype.split(/\s+/)
splitWhitespace(s) ==
  IF \A i \in 1..Len(s) : s[i] \notin Whitespace
  THEN <<s>>
  ELSE LET i == CHOOSE j \in 1..Len(s) :
                  s[j] \in Whitespace /\ \A k \in 1..(j - 1) : s[k] \notin Whitespace
           rest == Drop(s, i - 1)
       IN  <<Take(s, i - 1)>> \o splitWhitespace(Drop(rest, SpanLen(rest, Whitespace)))

RECURSIVE join(_)
\* Array.prototype.join("")
join(ss) == IF ss = <<>> THEN <<>> ELSE Head(ss) \o join(Tail(ss))

RECURSIVE joinWith(_, _)
\* Array.prototype.join(sep)
joinWith(ss, sep) ==
  IF ss = <<>> THEN <<>>
  ELSE IF Len(ss) = 1 THEN ss[1]
  ELSE ss[1] \o sep \o joinWith(Tail(ss), sep)

(***************************************************************************)
(* Numbers                                                                 *)
(***************************************************************************)
NaN == [nan |-> TRUE]

Undefined == [undef |-> TRUE]

\* No operation modelled step by step is running
NoSteps ==
  /\ tokenizer = Undefined
  /\ renderer = Undefined
  /\ fontLoadMarker = {}
  /\ responses = <<>>
  /\ heap = <<>>
  /\ nodes = <<>>

IsNaN(v) == "nan" \in DOMAIN v

RECURSIVE GCD(_, _)
GCD(a, b) == IF b = 0 THEN a ELSE GCD(b, a % b)

Abs(n) == IF n < 0 THEN -n ELSE n

\* The finite number n/d
Num(n, d) ==
  LET g == GCD(Abs(n), d)
  IN  [num |-> [n |-> n \div g, d |-> d \div g]]

IsNum(v) == "num" \in DOMAIN v

\* a < b for finite numbers; every comparison with NaN is false
Less(a, b) == IsNum(a) /\ IsNum(b) /\ a.num.n * b.num.d < b.num.n * a.num.d

RECURSIVE DecValue(_)
DecValue(s) == IF s = <<>> THEN 0 ELSE 10 * DecValue(Take(s, Len(s) - 1)) + DigitVal(s[Len(s)])

RECURSIVE Pow10(_)
Pow10(k) == IF k = 0 THEN 1 ELSE 10 * Pow10(k - 1)

RECURSIVE stripZeros(_)
stripZeros(ds) == IF ds # <<>> /\ ds[1] = 0 THEN stripZeros(Tail(ds)) ELSE ds

\* An integer kept as sign and hexadecimal digits, most significant first
Big(neg, ds) ==
  LET m == stripZeros(ds) IN [neg |-> neg /\ m # <<>>, hex |-> m]

IsBig(v) == "hex" \in DOMAIN v

RECURSIVE hexDigitsOf(_)
hexDigitsOf(n) == IF n = 0 THEN <<>> ELSE hexDigitsOf(n \div 16) \o <<n % 16>>

IntToBig(n) == Big(n < 0, hexDigitsOf(Abs(n)))

\* Number.parseInt(s, radix) for radix 10 and 16
parseInt(s, radix) ==
  LET number(neg, v, k) ==
        IF k = 0 THEN NaN
        ELSE IF radix = 16 THEN Big(neg, [i \in 1..k |-> DigitVal(v[i])])
        ELSE Big(neg, hexDigitsOf(DecValue(Take(v, k))))
      digits(neg, v) == number(neg, v, SpanLen(v, IF radix = 16 THEN HexChars ELSE DecChars))
      prefix(neg, u) ==
        digits(neg, IF radix = 16 /\ (startsWith(u, <<"0", "x">>) \/ startsWith(u, <<"0", "X">>))
                    THEN Drop(u, 2) ELSE u)
      sign(t) ==
        prefix(t # <<>> /\ t[1] = "-", IF t # <<>> /\ t[1] \in {"-", "+"} THEN Tail(t) ELSE t)
  IN  sign(trimStart(s))

\* A nonzero double of magnitude below 2^-46: adding it to 360 gives 360
Tiny(neg) == [tiny |-> neg]

IsTiny(v) == "tiny" \in DOMAIN v

\* A decimal literal 0.00...0d with at least TinyZeros zeros after the point
\* is below 10^-17; its products by 360 and by 180/pi stay below 2^-46
TinyZeros == 17

\* Number.parseFloat(s), without exponents and Infinity
parseFloat(s) ==
  LET number(neg, k, f, digits) ==
        IF k + f = 0 THEN NaN
        ELSE IF /\ f > TinyZeros
                /\ \A i \in 1..(k + TinyZeros) : digits[i] = "0"
                /\ \E i \in 1..(k + f) : digits[i] # "0"
        THEN Tiny(neg)
        ELSE Num(IF neg THEN -DecValue(digits) ELSE DecValue(digits), Pow10(f))
      fraction(neg, u, k, f) ==
        number(neg, k, f, Take(u, k) \o SubSeq(u, k + 2, k + 1 + f))
      point(neg, u, k) ==
        fraction(neg, u, k,
                 IF Len(u) > k /\ u[k + 1] = "." THEN SpanLen(Drop(u, k + 1), DecChars) ELSE 0)
      integer(neg, u) == point(neg, u, SpanLen(u, DecChars))
      sign(t) ==
        integer(t # <<>> /\ t[1] = "-", IF t # <<>> /\ t[1] \in {"-", "+"} THEN Tail(t) ELSE t)
  IN  sign(trimStart(s))

\* Number.prototype.toString(16)
toString16(v) ==
  IF IsNaN(v) THEN <<"N", "a", "N">>
  ELSE IF v.hex = <<>> THEN <<"0">>
  ELSE (IF v.neg THEN <<"-">> ELSE <<>>) \o [i \in 1..Len(v.hex) |-> HexLower[v.hex[i] + 1]]

\* String.prototype.padStart(2, "0")
padStart2(s) == IF Len(s) >= 2 THEN s ELSE IF Len(s) = 1 THEN <<"0">> \o s ELSE <<"0", "0">>

RECURSIVE HexValue(_)
HexValue(ds) == IF ds = <<>> THEN 0 ELSE 16 * HexValue(Take(ds, Len(ds) - 1)) + ds[Len(ds)]

\* The 32-bit pattern ToInt32(v) as two unsigned 16-bit halves <<hi, lo>>
Bits32(v) ==
  LET n == Len(v.hex)
      lo4 == SubSeq(v.hex, IF n > 4 THEN n - 3 ELSE 1, n)
      hi4 == IF n > 4 THEN SubSeq(v.hex, IF n > 8 THEN n - 7 ELSE 1, n - 4) ELSE <<>>
      lo == HexValue(lo4)
      hi == HexValue(hi4)
  IN  IF ~v.neg THEN <<hi, lo>>
      ELSE IF lo = 0 THEN <<(65536 - hi) % 65536, 0>>
      ELSE <<65535 - hi, 65536 - lo>>

RECURSIVE Pow2(_)
Pow2(k) == IF k = 0 THEN 1 ELSE 2 * Pow2(k - 1)

\* (v >> k) & mask computed on 31 bits: bit 31 of the pattern is lost
shrAnd_lost31(v, k, mask) ==
  LET b == Bits32(v)
  IN  IF k >= 16
      THEN ((b[1] % 32768) \div Pow2(k - 16)) % (mask + 1)
      ELSE (((b[1] % 256) * 65536 + b[2]) \div Pow2(k)) % (mask + 1)

\* (v >> k) & mask, for mask = 0xf or 0xff and k + 8 <= 32
shrAnd(v, k, mask) ==
  LET b == Bits32(v)
  IN  IF k >= 16
      THEN (b[1] \div Pow2(k - 16)) % (mask + 1)
      ELSE (((b[1] % 256) * 65536 + b[2]) \div Pow2(k)) % (mask + 1)

Ok(v) == [ok |-> v]

Throw(m) == [throw |-> m]

IsThrow(r) == "throw" \in DOMAIN r

IsOk(r) == "ok" \in DOMAIN r

Arr(s) == [arr |-> s]

IsArr(v) == "arr" \in DOMAIN v

Str(s) == [str |-> s]

IsStr(v) == "str" \in DOMAIN v

(***************************************************************************)
(* color-parsing.ts                                                        *)
(***************************************************************************)
\* parseHexColor with the 4-bit alpha divided by 16 instead of 15
parseHexColor_alpha16(color) ==
  LET short(r, g, b) ==
        \* the six shifted nibbles occupy disjoint bits: | is +
        Ok(IntToBig(r * 1048576 + r * 65536 + g * 4096 + g * 256 + b * 16 + b))
      shortAlpha(r, g, b, a) ==
        Ok(Arr(<<Num(r * 16 + r, 1), Num(g * 16 + g, 1), Num(b * 16 + b, 1), Num(a, 16)>>))
      hex(parsed) ==
        IF IsNaN(parsed) THEN Throw("Invalid hex color")
        ELSE IF Len(color) = 4
        THEN short(shrAnd(parsed, 8, 15), shrAnd(parsed, 4, 15), shrAnd(parsed, 0, 15))
        ELSE IF Len(color) = 5
        THEN shortAlpha(shrAnd(parsed, 12, 15), shrAnd(parsed, 8, 15),
                        shrAnd(parsed, 4, 15), shrAnd(parsed, 0, 15))
        ELSE IF Len(color) = 7 THEN Ok(parsed)
        ELSE IF Len(color) = 9
        THEN Ok(Arr(<<Num(shrAnd(parsed, 24, 255), 1),
                      Num(shrAnd(parsed, 16, 255), 1),
                      Num(shrAnd(parsed, 8, 255), 1),
                      Num(shrAnd(parsed, 0, 255), 255)>>))
        ELSE Throw("Invalid hex color")
  IN  hex(parseInt(Tail(color), 16))

parseHexColor(color) ==
  LET short(r, g, b) ==
        \* the six shifted nibbles occupy disjoint bits: | is +
        Ok(IntToBig(r * 1048576 + r * 65536 + g * 4096 + g * 256 + b * 16 + b))
      shortAlpha(r, g, b, a) ==
        Ok(Arr(<<Num(r * 16 + r, 1), Num(g * 16 + g, 1), Num(b * 16 + b, 1), Num(a, 15)>>))
      hex(parsed) ==
        IF IsNaN(parsed) THEN Throw("Invalid hex color")
        ELSE IF Len(color) = 4
        THEN short(shrAnd(parsed, 8, 15), shrAnd(parsed, 4, 15), shrAnd(parsed, 0, 15))
        ELSE IF Len(color) = 5
        THEN shortAlpha(shrAnd(parsed, 12, 15), shrAnd(parsed, 8, 15),
                        shrAnd(parsed, 4, 15), shrAnd(parsed, 0, 15))
        ELSE IF Len(color) = 7 THEN Ok(parsed)
        ELSE IF Len(color) = 9
        THEN Ok(Arr(<<Num(shrAnd(parsed, 24, 255), 1),
                      Num(shrAnd(parsed, 16, 255), 1),
                      Num(shrAnd(parsed, 8, 255), 1),
                      Num(shrAnd(parsed, 0, 255), 255)>>))
        ELSE Throw("Invalid hex color")
  IN  hex(parseInt(Tail(color), 16))

parseRgbColor(color) ==
  LET rgb(args) ==
        IF Len(args) # 3 THEN Throw("Invalid rgb color")
        ELSE Ok(parseInt(join(args), 16))
      map(parts) ==
        rgb([i \in 1..Len(parts) |-> padStart2(toString16(parseInt(trim(parts[i]), 10)))])
  IN  map(split(sliceButLast(color, 4), ","))

parseRgbaColor(color) ==
  LET rgba(args) ==
        IF Len(args) # 4 THEN Throw("Invalid rgba color")
        ELSE IF \/ Less(args[1], Num(0, 1)) \/ Less(Num(255, 1), args[1])
                \/ Less(args[2], Num(0, 1)) \/ Less(Num(255, 1), args[2])
                \/ Less(args[3], Num(0, 1)) \/ Less(Num(255, 1), args[3])
                \/ Less(args[4], Num(0, 1)) \/ Less(Num(1, 1), args[4])
        THEN Throw("Invalid rgba color")
        ELSE Ok(Arr(args))
      map(parts) == rgba([i \in 1..Len(parts) |-> parseFloat(trim(parts[i]))])
  IN  map(split(sliceButLast(color, 5), ","))

parseColor(color) ==
  IF startsWith(color, <<"#">>) THEN parseHexColor(color)
  ELSE IF startsWith(color, <<"r", "g", "b", "(">>) THEN parseRgbColor(color)
  ELSE IF startsWith(color, <<"r", "g", "b", "a", "(">>) THEN parseRgbaColor(color)
  ELSE Throw("Invalid color")

(***************************************************************************)
(* helpers.ts and style-parsing.ts                                         *)
(***************************************************************************)
Null == [null |-> TRUE]

IsNull(v) == "null" \in DOMAIN v

IsUndefined(v) == "undef" \in DOMAIN v

IsUnitObject(v) == "unit" \in DOMAIN v

\* typeof v === "number"
IsNumber(v) == IsNum(v) \/ IsNaN(v)

\* typeof v === "object"
IsObject(v) == IsNull(v) \/ IsArr(v) \/ IsUnitObject(v)

\* The object {unit: val}; id tells apart two objects with the same content
UnitObject(unit, val, id) == [unit |-> unit, val |-> val, id |-> id]

percentage(p, id) == UnitObject("percentage", p, id)

rem(r, id) == UnitObject("rem", r, id)

em(e, id) == UnitObject("em", e, id)

vh(v, id) == UnitObject("vh", v, id)

vw(v, id) == UnitObject("vw", v, id)

\* a === b
StrictEq(a, b) == ~IsNaN(a) /\ a = b

LengthKeywords == {<<"a", "u", "t", "o">>, <<"m", "i", "n", "-", "c", "o", "n", "t", "e", "n", "t">>, <<"m", "a", "x", "-", "c", "o", "n", "t", "e", "n", "t">>}

\* value.match(/^(-?[\d.]+)(.*)$/) is computed as sign, digit span and rest
parseLengthUnit(value, id) ==
  LET switch(numValue, unit) ==
        IF unit = <<"%">> THEN percentage(numValue, id)
        ELSE IF unit = <<"r", "e", "m">> THEN rem(numValue, id)
        ELSE IF unit = <<"e", "m">> THEN em(numValue, id)
        ELSE IF unit = <<"v", "h">> THEN vh(numValue, id)
        ELSE IF unit = <<"v", "w">> THEN vw(numValue, id)
        ELSE numValue
      match(s, sign, k) ==
        IF k = 0 THEN Num(0, 1)
        ELSE switch(parseFloat(Take(s, sign + k)), Drop(s, sign + k))
      signed(s, sign) == match(s, sign, SpanLen(Drop(s, sign), DecChars \cup {"."}))
  IN  IF IsNumber(value) THEN value
      ELSE IF value.str \in LengthKeywords THEN value
      ELSE signed(value.str, IF value.str # <<>> /\ value.str[1] = "-" THEN 1 ELSE 0)

\* The i-th token of a sides string is parsed into the object of identity id + i
parseSideLengthUnits(value, id) ==
  LET shorthand(units) ==
        IF Len(units) = 1 THEN Ok(units[1])
        ELSE IF Len(units) = 2 \/ Len(units) = 4 THEN Ok(Arr(units))
        ELSE IF Len(units) = 3 THEN Ok(Arr(<<units[1], units[2], units[3], units[2]>>))
        ELSE Throw("Invalid sides value")
      map(parts) == [i \in 1..Len(parts) |-> parseLengthUnit(Str(parts[i]), id + i)]
  IN  IF IsNumber(value) THEN Ok(parseLengthUnit(value, id))
      ELSE IF ~IsStr(value) THEN Throw("TypeError")
      ELSE shorthand(map(splitWhitespace(trim(value.str))))

\* a / b for numbers
Divide(a, b) ==
  IF IsNaN(a) \/ IsNaN(b) THEN NaN
  ELSE IF b.num.n = 0 THEN [inf |-> TRUE]
  ELSE IF b.num.n < 0 THEN Num(-(a.num.n * b.num.d), a.num.d * (-b.num.n))
  ELSE Num(a.num.n * b.num.d, a.num.d * b.num.n)

parseAspectRatio(aspectRatio) ==
  IF IsNumber(aspectRatio) THEN Ok(aspectRatio)
  ELSE IF IsStr(aspectRatio) /\ "/" \in {aspectRatio.str[i] : i \in 1..Len(aspectRatio.str)} THEN
    LET parts == split(aspectRatio.str, "/")
        numerator == parseFloat(parts[1])
        denominator == parseFloat(parts[2])
    IN  IF denominator = Num(0, 1) THEN Throw("Invalid aspect ratio")
        ELSE Ok(Divide(numerator, denominator))
  ELSE IF IsStr(aspectRatio) THEN Ok(parseFloat(aspectRatio.str))
  ELSE Throw("Invalid aspect ratio")

parseDisplay(display) ==
  IF display \in {Str(<<"b", "l", "o", "c", "k">>), Str(<<"f", "l", "e", "x">>), Str(<<"g", "r", "i", "d">>), Str(<<"n", "o", "n", "e">>)}
  THEN display
  ELSE Str(<<"b", "l", "o", "c", "k">>)

parsePosition(position) ==
  IF position \in {Str(<<"r", "e", "l", "a", "t", "i", "v", "e">>), Str(<<"a", "b", "s", "o", "l", "u", "t", "e">>)} THEN position
  ELSE Str(<<"r", "e", "l", "a", "t", "i", "v", "e">>)

\* autoFlow.replace(" ", "-"): the first space only
parseGridAutoFlow(autoFlow) ==
  LET replace(s, k) == IF k = Len(s) THEN s ELSE Take(s, k) \o <<"-">> \o Drop(s, k + 1)
  IN  IF autoFlow \in {Str(<<"r", "o", "w">>), Str(<<"c", "o", "l", "u", "m", "n">>), Str(<<"r", "o", "w", " ", "d", "e", "n", "s", "e">>), Str(<<"c", "o", "l", "u", "m", "n", " ", "d", "e", "n", "s", "e">>)}
      THEN Str(replace(autoFlow.str, SpanLen(autoFlow.str, {autoFlow.str[i] : i \in 1..Len(autoFlow.str)} \ {" "})))
      ELSE Str(<<"r", "o", "w">>)

(***************************************************************************)
(* Inputs of parseColor                                                    *)
(***************************************************************************)
Hex16 == {HexLower[i] : i \in 1..16}

SeqsOf(cs, n) == [1..n -> cs]

\* '#rgb' and '#rgba' over all sixteen digits
ShortHexInputs == {<<"#">> \o s : s \in SeqsOf(Hex16, 3) \cup SeqsOf(Hex16, 4)}

\* '#' followed by 0..MaxHexLen characters, hex digits or not
MixedHexChars == {"8", "f", "g"}

MixedHexInputs ==
  {<<"#">> \o s : s \in UNION {SeqsOf(MixedHexChars, n) : n \in 0..MaxHexLen}}

ArgTokens ==
  { <<"0">>, <<"2", "5", "5">>, <<"2", "5", "6">>, <<"-", "1">>, <<" ", "1", "2", "8">>,
    <<"0", ".", "5">>, <<"1", ".", "5">>, <<"x">> }

RgbInputs ==
  {p \o joinWith(a, <<",">>) \o <<")">> :
     p \in {<<"r", "g", "b", "(">>, <<"r", "g", "b", "a", "(">>},
     a \in UNION {SeqsOf(ArgTokens, n) : n \in 2..MaxRgbArgs}}

OtherColorInputs ==
  { <<>>, <<"r", "e", "d">>, <<"f", "f", "0", "0", "0", "0">>,
    <<"h", "s", "l", "(", "0", ",", "1", "0", "0", "%", ",", "5", "0", "%", ")">>,
    <<"r", "g", "b">>, <<"r", "g", "b", "(">>, <<"R", "G", "B", "(", "0", ",", "0", ",", "0", ")">>,
    <<"#", "-", "f", "f">>, <<"#", "F", "F", "0", "0", "8", "0">>,
    <<"#", "0", "x", "1", "f", "0", "0">> }

ColorInputs == MixedHexInputs \cup RgbInputs \cup OtherColorInputs

(***************************************************************************)
(* Calls of parseColor                                                     *)
(***************************************************************************)
InitColor ==
  /\ pc = "call"
  /\ fn = "parseColor"
  /\ arg \in ColorInputs
  /\ ret = Undefined
  /\ utils = "drop"
  /\ NoSteps

InitShortHex ==
  /\ pc = "call"
  /\ fn = "parseColor"
  /\ arg \in ShortHexInputs
  /\ ret = Undefined
  /\ utils = "drop"
  /\ NoSteps

CallParseColor ==
  /\ pc = "call"
  /\ fn = "parseColor"
  /\ ret' = parseColor(arg)
  /\ pc' = "done"
  /\ UNCHANGED <<fn, arg, utils, stepVars>>

NextColor == CallParseColor

SpecColor == InitColor /\ [][NextColor]_vars

SpecShortHex == InitShortHex /\ [][NextColor]_vars

(***************************************************************************)
(* Properties of parseColor                                                *)
(***************************************************************************)
Returned(f) == pc = "done" /\ fn = f

endsWith(s, c) == s # <<>> /\ s[Len(s)] = c

IsRgbCall(s) == startsWith(s, <<"r", "g", "b", "(">>) /\ endsWith(s, ")")

IsRgbaCall(s) == startsWith(s, <<"r", "g", "b", "a", "(">>) /\ endsWith(s, ")")

\* The arguments written between the parentheses of an rgb()/rgba() call
CallArgs(s) ==
  LET inner == IF IsRgbCall(s) THEN sliceButLast(s, 4) ELSE sliceButLast(s, 5)
      parts == split(inner, ",")
  IN  [i \in 1..Len(parts) |-> parseFloat(trim(parts[i]))]

OutOfRange(v, lo, hi) == Less(v, Num(lo, 1)) \/ Less(Num(hi, 1), v)

HasOutOfRangeComponent(s) ==
  LET a == CallArgs(s)
  IN  \/ IsRgbCall(s) /\ Len(a) = 3 /\ \E i \in 1..3 : OutOfRange(a[i], 0, 255)
      \/ IsRgbaCall(s) /\ Len(a) = 4
           /\ ((\E i \in 1..3 : OutOfRange(a[i], 0, 255)) \/ OutOfRange(a[4], 0, 1))

\* C8: parseColor fails for rgb(r,g,b) and rgba(r,g,b,a) whenever r, g or b
\* lies outside [0,255] or a lies outside [0,1].
C8_OutOfRangeComponentFails ==
  (Returned("parseColor") /\ HasOutOfRangeComponent(arg)) => IsThrow(ret)

IsWellFormedHex(s) ==
  /\ startsWith(s, <<"#">>)
  /\ Len(s) - 1 \in {3, 4, 6, 8}
  /\ \A i \in 2..Len(s) : s[i] \in HexChars

HasRightArity(s) ==
  \/ IsRgbCall(s) /\ Len(CallArgs(s)) = 3
  \/ IsRgbaCall(s) /\ Len(CallArgs(s)) = 4

\* C9: parseColor fails for every string that is neither a well-formed hex
\* color ('#' and exactly 3, 4, 6 or 8 hex digits) nor an rgb()/rgba() call
\* with the right number of arguments.
C9_OtherSyntaxFails ==
  (Returned("parseColor") /\ ~IsWellFormedHex(arg) /\ ~HasRightArity(arg)) => IsThrow(ret)

\* '#rgb' -> '#rrggbb', '#rgba' -> '#rrggbbaa'
doubleNibbles(s) == <<"#">> \o join([i \in 1..(Len(s) - 1) |-> <<s[i + 1], s[i + 1]>>])

IsShortHex(s) == IsWellFormedHex(s) /\ Len(s) \in {4, 5}

\* C10: parseColor('#rgb') equals parseColor('#rrggbb') and is the packed
\* integer 0xRRGGBB; parseColor('#rgba') equals parseColor('#rrggbbaa') and is
\* a component color.
C10_ShortHexEqualsLongHex ==
  (Returned("parseColor") /\ IsShortHex(arg)) =>
    /\ ret = parseColor(doubleNibbles(arg))
    /\ Len(arg) = 4 =>
         ret = Ok(Big(FALSE, <<DigitVal(arg[2]), DigitVal(arg[2]), DigitVal(arg[3]),
                               DigitVal(arg[3]), DigitVal(arg[4]), DigitVal(arg[4])>>))
    /\ Len(arg) = 5 => IsOk(ret) /\ IsArr(ret.ok) /\ Len(ret.ok.arr) = 4

C10_Witness ==
  /\ Returned("parseColor")
  /\ arg = <<"#", "f", "8", "0", "c">>
  /\ ret = Ok(Arr(<<Num(255, 1), Num(136, 1), Num(0, 1), Num(4, 5)>>))

(***************************************************************************)
(* Calls of parseSideLengthUnits                                           *)
(***************************************************************************)
LengthTokens == {<<"1", "0", "p", "x">>, <<"5">>, <<"1", "0", "%">>, <<"1", "e", "m">>, <<"a", "u", "t", "o">>}

Separators == {<<" ">>, <<" ", " ">>}

Margins == {<<>>, <<" ">>}

\* 0..MaxSideTokens tokens, separated and surrounded by whitespace
SidesInputs ==
  {Str(m \o joinWith(t, sep) \o m) :
     m \in Margins, sep \in Separators,
     t \in UNION {SeqsOf(LengthTokens, n) : n \in 0..MaxSideTokens}}

InitSides ==
  /\ pc = "call"
  /\ fn = "parseSideLengthUnits"
  /\ arg \in SidesInputs \cup {Num(0, 1), Num(10, 1)}
  /\ ret = Undefined
  /\ utils = "drop"
  /\ NoSteps

CallParseSideLengthUnits ==
  /\ pc = "call"
  /\ fn = "parseSideLengthUnits"
  /\ ret' = parseSideLengthUnits(arg, 0)
  /\ pc' = "done"
  /\ UNCHANGED <<fn, arg, utils, stepVars>>

NextSides == CallParseSideLengthUnits

SpecSides == InitSides /\ [][NextSides]_vars

\* The whitespace-separated tokens of s
TokensOf(s) == IF trim(s) = <<>> THEN <<>> ELSE splitWhitespace(trim(s))

\* C4: parseSideLengthUnits on N whitespace-separated tokens yields the single
\* value for N=1, the pair (a,b) for N=2, [a,b,c,b] for N=3, the four values
\* for N=4, and fails for N=0 and for N>4.
C4_SidesByTokenCount ==
  (Returned("parseSideLengthUnits") /\ IsStr(arg)) =>
    LET t == TokensOf(arg.str)
        u == [i \in 1..Len(t) |-> parseLengthUnit(Str(t[i]), i)]
    IN  /\ Len(t) = 1 => ret = Ok(u[1])
        /\ Len(t) = 2 => ret = Ok(Arr(<<u[1], u[2]>>))
        /\ Len(t) = 3 => ret = Ok(Arr(<<u[1], u[2], u[3], u[2]>>))
        /\ Len(t) = 4 => ret = Ok(Arr(<<u[1], u[2], u[3], u[4]>>))
        /\ (Len(t) = 0 \/ Len(t) > 4) => IsThrow(ret)

(***************************************************************************)
(* utils.ts                                                                *)
(***************************************************************************)
UpperLetters == <<"A", "B", "C", "D", "E", "F", "G", "H", "I", "J", "K", "L", "M",
                  "N", "O", "P", "Q", "R", "S", "T", "U", "V", "W", "X", "Y", "Z">>

LowerLetters == <<"a", "b", "c", "d", "e", "f", "g", "h", "i", "j", "k", "l", "m",
                  "n", "o", "p", "q", "r", "s", "t", "u", "v", "w", "x", "y", "z">>

IsUpper(c) == \E i \in 1..26 : UpperLetters[i] = c

toLowerCase(c) == LowerLetters[CHOOSE i \in 1..26 : UpperLetters[i] = c]

\* str.replace(/[A-Z]/g, (letter) => `_${letter.toLowerCase()}`)
camelToSnakeCase(str) ==
  join([i \in 1..Len(str) |->
          IF IsUpper(str[i]) THEN <<"_", toLowerCase(str[i])>> ELSE <<str[i]>>])

prefixes == <<<<"-", "m", "o", "z", "-">>, <<"-", "w", "e", "b", "k", "i", "t", "-">>, <<"-", "o", "-">>, <<"-", "m", "s", "-">>>>

isPrefixed(value) == \E i \in 1..Len(prefixes) : startsWith(value, prefixes[i])

isGlobalValue(value) ==
  value \in {<<"i", "n", "h", "e", "r", "i", "t">>, <<"i", "n", "i", "t", "i", "a", "l">>, <<"r", "e", "v", "e", "r", "t">>, <<"u", "n", "s", "e", "t">>}

\* utils.ts: a global keyword or a prefixed value becomes undefined
removeGlobalValues(source) ==
  IF ~IsStr(source) THEN Ok(source)
  ELSE IF isGlobalValue(source.str) \/ isPrefixed(source.str) THEN Ok(Undefined)
  ELSE Ok(source)

\* The other version of utils.ts: a known prefix is stripped, any other value
\* starting with '-' throws
removeGlobalValuesStrip(source) ==
  IF ~IsStr(source) THEN Ok(source)
  ELSE IF isGlobalValue(source.str) THEN Ok(Undefined)
  ELSE IF source.str # <<>> /\ source.str[1] = "-" THEN
    IF isPrefixed(source.str)
    THEN LET i == CHOOSE j \in 1..Len(prefixes) :
                    /\ startsWith(source.str, prefixes[j])
                    /\ \A k \in 1..(j - 1) : ~startsWith(source.str, prefixes[k])
         IN  Ok(Str(Drop(source.str, Len(prefixes[i]))))
    ELSE Throw("Unsupported prefix in value")
  ELSE Ok(source)

(***************************************************************************)
(* style-parser.ts                                                         *)
(***************************************************************************)
\* Number(v)
NumberOf(v) ==
  IF IsNumber(v) THEN v
  ELSE IF ~IsStr(v) THEN NaN
  ELSE
    LET t == trim(v.str)
        u == IF t # <<>> /\ t[1] \in {"-", "+"} THEN Tail(t) ELSE t
        k == SpanLen(u, DecChars)
        w == Drop(u, k)
        f == IF w # <<>> /\ w[1] = "." THEN SpanLen(Tail(w), DecChars) ELSE 0
        used == k + (IF w # <<>> /\ w[1] = "." THEN 1 + f ELSE 0)
    IN  IF t = <<>> THEN Num(0, 1)
        ELSE IF k + f > 0 /\ used = Len(u) THEN parseFloat(t)
        ELSE NaN

LengthProps ==
  {<<"w", "i", "d", "t", "h">>, <<"h", "e", "i", "g", "h", "t">>, <<"m", "a", "x", "W", "i", "d", "t", "h">>, <<"m", "a", "x", "H", "e", "i", "g", "h", "t">>, <<"m", "i", "n", "W", "i", "d", "t", "h">>, <<"m", "i", "n", "H", "e", "i", "g", "h", "t">>,
   <<"f", "l", "e", "x", "B", "a", "s", "i", "s">>, <<"g", "a", "p">>, <<"f", "o", "n", "t", "S", "i", "z", "e">>, <<"l", "i", "n", "e", "H", "e", "i", "g", "h", "t">>, <<"l", "e", "t", "t", "e", "r", "S", "p", "a", "c", "i", "n", "g">>}

SidesProps == {<<"p", "a", "d", "d", "i", "n", "g">>, <<"m", "a", "r", "g", "i", "n">>, <<"b", "o", "r", "d", "e", "r", "W", "i", "d", "t", "h">>, <<"b", "o", "r", "d", "e", "r", "R", "a", "d", "i", "u", "s">>, <<"i", "n", "s", "e", "t">>}

ColorProps == {<<"b", "a", "c", "k", "g", "r", "o", "u", "n", "d", "C", "o", "l", "o", "r">>, <<"b", "o", "r", "d", "e", "r", "C", "o", "l", "o", "r">>, <<"c", "o", "l", "o", "r">>}

SkipParsingProps == {<<"f", "l", "e", "x", "D", "i", "r", "e", "c", "t", "i", "o", "n">>, <<"f", "l", "e", "x", "W", "r", "a", "p">>, <<"o", "b", "j", "e", "c", "t", "F", "i", "t">>, <<"f", "o", "n", "t", "F", "a", "m", "i", "l", "y">>}

CastProps ==
  {<<"j", "u", "s", "t", "i", "f", "y", "C", "o", "n", "t", "e", "n", "t">>, <<"a", "l", "i", "g", "n", "C", "o", "n", "t", "e", "n", "t">>, <<"j", "u", "s", "t", "i", "f", "y", "S", "e", "l", "f">>, <<"a", "l", "i", "g", "n", "I", "t", "e", "m", "s">>,
   <<"a", "l", "i", "g", "n", "S", "e", "l", "f">>, <<"j", "u", "s", "t", "i", "f", "y", "I", "t", "e", "m", "s">>, <<"t", "e", "x", "t", "O", "v", "e", "r", "f", "l", "o", "w">>}

NumberProps == {<<"f", "l", "e", "x", "G", "r", "o", "w">>, <<"f", "l", "e", "x", "S", "h", "r", "i", "n", "k">>}

\* The entries of PROPERTY_PARSERS for display, position, lengths, sides,
\* colors, aspect ratio, grid-auto-flow, pass-through properties and text-align
PROPERTY_PARSERS ==
  [k \in LengthProps \cup SidesProps \cup ColorProps \cup SkipParsingProps
         \cup CastProps \cup NumberProps
         \cup {<<"d", "i", "s", "p", "l", "a", "y">>, <<"p", "o", "s", "i", "t", "i", "o", "n">>, <<"a", "s", "p", "e", "c", "t", "R", "a", "t", "i", "o">>, <<"t", "e", "x", "t", "A", "l", "i", "g", "n">>,
               <<"g", "r", "i", "d", "A", "u", "t", "o", "F", "l", "o", "w">>} |->
     IF k \in LengthProps THEN "parseLengthUnit"
     ELSE IF k \in SidesProps THEN "parseSideLengthUnits"
     ELSE IF k \in ColorProps THEN "parseColor"
     ELSE IF k \in SkipParsingProps THEN "SKIP_PARSING_SYMBOL"
     ELSE IF k \in CastProps THEN "cast"
     ELSE IF k \in NumberProps THEN "Number"
     ELSE IF k = <<"d", "i", "s", "p", "l", "a", "y">> THEN "parseDisplay"
     ELSE IF k = <<"p", "o", "s", "i", "t", "i", "o", "n">> THEN "parsePosition"
     ELSE IF k = <<"a", "s", "p", "e", "c", "t", "R", "a", "t", "i", "o">> THEN "parseAspectRatio"
     ELSE IF k = <<"g", "r", "i", "d", "A", "u", "t", "o", "F", "l", "o", "w">> THEN "parseGridAutoFlow"
     ELSE "textAlign"]

\* The call parser(cleanValue) of processCssProp
applyParser(parser, value) ==
  CASE parser = "parseLengthUnit" ->
         IF IsNumber(value) \/ IsStr(value) THEN Ok(parseLengthUnit(value, 0))
         ELSE Throw("TypeError")
    [] parser = "parseSideLengthUnits" -> parseSideLengthUnits(value, 0)
    [] parser = "parseColor" ->
         IF IsStr(value) THEN parseColor(value.str) ELSE Throw("TypeError")
    [] parser = "cast" -> Ok(value)
    [] parser = "Number" -> Ok(NumberOf(value))
    [] parser = "parseDisplay" -> Ok(parseDisplay(value))
    [] parser = "parsePosition" -> Ok(parsePosition(value))
    [] parser = "parseAspectRatio" -> parseAspectRatio(value)
    [] parser = "parseGridAutoFlow" -> Ok(parseGridAutoFlow(value))
    [] parser = "textAlign" ->
         IF value = Str(<<"m", "a", "t", "c", "h", "-", "p", "a", "r", "e", "n", "t">>) THEN Ok(Undefined) ELSE Ok(value)

SKIPPED_PROPERTIES ==
  {<<"t", "o", "p">>, <<"r", "i", "g", "h", "t">>, <<"b", "o", "t", "t", "o", "m">>, <<"l", "e", "f", "t">>,
   <<"m", "a", "r", "g", "i", "n", "T", "o", "p">>, <<"m", "a", "r", "g", "i", "n", "R", "i", "g", "h", "t">>, <<"m", "a", "r", "g", "i", "n", "B", "o", "t", "t", "o", "m">>, <<"m", "a", "r", "g", "i", "n", "L", "e", "f", "t">>,
   <<"p", "a", "d", "d", "i", "n", "g", "T", "o", "p">>, <<"p", "a", "d", "d", "i", "n", "g", "R", "i", "g", "h", "t">>, <<"p", "a", "d", "d", "i", "n", "g", "B", "o", "t", "t", "o", "m">>, <<"p", "a", "d", "d", "i", "n", "g", "L", "e", "f", "t">>}

Skip == [skip |-> TRUE]

Set(v) == [set |-> v]

IsSet(r) == "set" \in DOMAIN r

\* What processCssProp does to the style: nothing (Skip), style[snake] = v
\* (Set(v)), or an exception leaving it (Throw)
processCssProp(cssProp, sourceValue) ==
  LET assign(parsedValue) ==
        IF IsThrow(parsedValue) THEN Skip
        ELSE IF IsNull(parsedValue.ok) \/ IsUndefined(parsedValue.ok) THEN Skip
        ELSE Set(parsedValue.ok)
      process(cleanValue) ==
        IF IsThrow(cleanValue) THEN cleanValue
        ELSE IF IsUndefined(cleanValue.ok) \/ IsNull(cleanValue.ok) THEN Skip
        ELSE IF cssProp \notin DOMAIN PROPERTY_PARSERS THEN Skip
        ELSE IF PROPERTY_PARSERS[cssProp] = "SKIP_PARSING_SYMBOL" THEN Set(cleanValue.ok)
        ELSE assign(applyParser(PROPERTY_PARSERS[cssProp], cleanValue.ok))
  IN  IF cssProp \in SKIPPED_PROPERTIES THEN Skip
      ELSE process(IF utils = "strip" THEN removeGlobalValuesStrip(sourceValue)
                   ELSE removeGlobalValues(sourceValue))

\* source[prop]
Get(source, prop) == IF prop \in DOMAIN source.obj THEN source.obj[prop] ELSE Undefined

Zero == Num(0, 1)

\* The sides {top, right, bottom, left} are the tuple <<top, right, bottom, left>>
parseBaseSides(baseValue) ==
  LET sides(baseValues) ==
        IF IsThrow(baseValues) THEN baseValues
        ELSE IF IsNumber(baseValues.ok)
        THEN Ok(<<baseValues.ok, baseValues.ok, baseValues.ok, baseValues.ok>>)
        ELSE IF IsArr(baseValues.ok) /\ Len(baseValues.ok.arr) = 2
        THEN Ok(<<baseValues.ok.arr[1], baseValues.ok.arr[2],
                  baseValues.ok.arr[1], baseValues.ok.arr[2]>>)
        ELSE IF IsArr(baseValues.ok) /\ Len(baseValues.ok.arr) = 4
        THEN Ok(<<baseValues.ok.arr[1], baseValues.ok.arr[2],
                  baseValues.ok.arr[3], baseValues.ok.arr[4]>>)
        ELSE Ok(<<Zero, Zero, Zero, Zero>>)
  IN  sides(parseSideLengthUnits(baseValue, 0))

shouldReturnBaseValueDirectly(source, baseProp, topProp, rightProp, bottomProp, leftProp) ==
  LET hasIndividualOverrides ==
        \/ ~IsUndefined(Get(source, topProp))
        \/ ~IsUndefined(Get(source, rightProp))
        \/ ~IsUndefined(Get(source, bottomProp))
        \/ ~IsUndefined(Get(source, leftProp))
  IN  ~IsUndefined(Get(source, baseProp)) /\ ~hasIndividualOverrides

getBaseSides(source, baseProp) ==
  LET baseValue == Get(source, baseProp)
  IN  IF ~IsUndefined(baseValue) /\ ~IsObject(baseValue)
      THEN parseBaseSides(baseValue)
      ELSE Ok(<<Zero, Zero, Zero, Zero>>)

getIndividualSideValue(source, sideProp, id) ==
  LET sideValue == Get(source, sideProp)
  IN  IF ~IsUndefined(sideValue) /\ ~IsObject(sideValue)
      THEN parseLengthUnit(sideValue, id)
      ELSE Zero

\* parseSides: the edges parsed from per-edge properties are the objects of
\* identity 11..14, those of the shorthand have the identity of their token
parseSides(source, baseProp, topProp, rightProp, bottomProp, leftProp) ==
  LET canonical(topValue, rightValue, bottomValue, leftValue) ==
        IF /\ StrictEq(topValue, rightValue)
           /\ StrictEq(rightValue, bottomValue)
           /\ StrictEq(bottomValue, leftValue)
        THEN Ok(topValue)
        ELSE Ok(Arr(<<topValue, rightValue, bottomValue, leftValue>>))
      override(baseSides) ==
        IF IsThrow(baseSides) THEN baseSides
        ELSE canonical(
               IF ~IsUndefined(Get(source, topProp))
               THEN getIndividualSideValue(source, topProp, 11) ELSE baseSides.ok[1],
               IF ~IsUndefined(Get(source, rightProp))
               THEN getIndividualSideValue(source, rightProp, 12) ELSE baseSides.ok[2],
               IF ~IsUndefined(Get(source, bottomProp))
               THEN getIndividualSideValue(source, bottomProp, 13) ELSE baseSides.ok[3],
               IF ~IsUndefined(Get(source, leftProp))
               THEN getIndividualSideValue(source, leftProp, 14) ELSE baseSides.ok[4])
  IN  IF /\ IsUndefined(Get(source, baseProp))
         /\ IsUndefined(Get(source, topProp))
         /\ IsUndefined(Get(source, rightProp))
         /\ IsUndefined(Get(source, bottomProp))
         /\ IsUndefined(Get(source, leftProp))
      THEN Ok(Undefined)
      ELSE IF shouldReturnBaseValueDirectly(source, baseProp, topProp, rightProp,
                                            bottomProp, leftProp)
      THEN parseSideLengthUnits(Get(source, baseProp), 0)
      ELSE override(getBaseSides(source, baseProp))

parsePadding(source) ==
  parseSides(source, <<"p", "a", "d", "d", "i", "n", "g">>, <<"p", "a", "d", "d", "i", "n", "g", "T", "o", "p">>, <<"p", "a", "d", "d", "i", "n", "g", "R", "i", "g", "h", "t">>,
             <<"p", "a", "d", "d", "i", "n", "g", "B", "o", "t", "t", "o", "m">>, <<"p", "a", "d", "d", "i", "n", "g", "L", "e", "f", "t">>)

parseMargin(source) ==
  parseSides(source, <<"m", "a", "r", "g", "i", "n">>, <<"m", "a", "r", "g", "i", "n", "T", "o", "p">>, <<"m", "a", "r", "g", "i", "n", "R", "i", "g", "h", "t">>,
             <<"m", "a", "r", "g", "i", "n", "B", "o", "t", "t", "o", "m">>, <<"m", "a", "r", "g", "i", "n", "L", "e", "f", "t">>)

parseInset(source) ==
  parseSides(source, <<"i", "n", "s", "e", "t">>, <<"t", "o", "p">>, <<"r", "i", "g", "h", "t">>, <<"b", "o", "t", "t", "o", "m">>, <<"l", "e", "f", "t">>)

Bag(f) == [bag |-> f]

IsBag(v) == "bag" \in DOMAIN v

\* f with f[key] = r.ok, unless r.ok is undefined
Assign(f, key, r) ==
  IF IsUndefined(r.ok) THEN f
  ELSE [k \in DOMAIN f \cup {key} |-> IF k = key THEN r.ok ELSE f[k]]

\* The object written by the loop over Object.entries(source): one key per
\* property, so the order of the entries does not matter
loopResult(effects) ==
  [sk \in {camelToSnakeCase(k) : k \in {j \in DOMAIN effects : IsSet(effects[j])}} |->
     effects[CHOOSE k \in DOMAIN effects : IsSet(effects[k]) /\ camelToSnakeCase(k) = sk].set]

\* parseStyle returning the result object also when it has no key
parseStyle_keepEmpty(source) ==
  LET return(result) == Ok(Bag(result))
      special(effects, inset, padding, margin) ==
        IF \E k \in DOMAIN effects : IsThrow(effects[k])
        THEN Throw("Unsupported prefix in value")
        ELSE IF IsThrow(inset) THEN inset
        ELSE IF IsThrow(padding) THEN padding
        ELSE IF IsThrow(margin) THEN margin
        ELSE return(Assign(Assign(Assign(loopResult(effects), <<"i", "n", "s", "e", "t">>, inset),
                                  <<"p", "a", "d", "d", "i", "n", "g">>, padding), <<"m", "a", "r", "g", "i", "n">>, margin))
  IN  IF IsUndefined(source) THEN Ok(Undefined)
      ELSE special([k \in DOMAIN source.obj |-> processCssProp(k, source.obj[k])],
                   parseInset(source), parsePadding(source), parseMargin(source))

parseStyle(source) ==
  LET return(result) == IF DOMAIN result # {} THEN Ok(Bag(result)) ELSE Ok(Undefined)
      special(effects, inset, padding, margin) ==
        IF \E k \in DOMAIN effects : IsThrow(effects[k])
        THEN Throw("Unsupported prefix in value")
        ELSE IF IsThrow(inset) THEN inset
        ELSE IF IsThrow(padding) THEN padding
        ELSE IF IsThrow(margin) THEN margin
        ELSE return(Assign(Assign(Assign(loopResult(effects), <<"i", "n", "s", "e", "t">>, inset),
                                  <<"p", "a", "d", "d", "i", "n", "g">>, padding), <<"m", "a", "r", "g", "i", "n">>, margin))
  IN  IF IsUndefined(source) THEN Ok(Undefined)
      ELSE special([k \in DOMAIN source.obj |-> processCssProp(k, source.obj[k])],
                   parseInset(source), parsePadding(source), parseMargin(source))

(***************************************************************************)
(* Calls of parseStyle                                                     *)
(***************************************************************************)
Absent == [absent |-> TRUE]

\* The object with the properties <<name, value>> of ps whose value is given
Object(ps) ==
  LET given == {p \in ps : p[2] # Absent}
  IN  [obj |-> [k \in {p[1] : p \in given} |-> (CHOOSE p \in given : p[1] = k)[2]]]

BaseValues ==
  { Absent, Num(10, 1), Str(<<"1", "0", "p", "x">>), Str(<<"1", "0", "%">>), Str(<<"a", "u", "t", "o">>), Str(<<"1", "0", "p", "x", " ", "1", "0", "p", "x">>),
    Str(<<"1", "0", "p", "x", " ", "2", "0", "p", "x">>), Str(<<"1", "0", "%", " ", "1", "0", "%">>), Str(<<"1", "p", "x", " ", "2", "p", "x", " ", "3", "p", "x">>), Str(<<"1", "p", "x", " ", "2", "p", "x", " ", "3", "p", "x", " ", "4", "p", "x">>),
    Str(<<"1", " ", "2", " ", "3", " ", "4", " ", "5">>), Str(<<>>), Str(<<"i", "n", "h", "e", "r", "i", "t">>), Str(<<"-", "m", "o", "z", "-", "5", "p", "x">>) }

EdgeValues == {Absent, Num(10, 1), Str(<<"1", "0", "%">>), Str(<<"i", "n", "h", "e", "r", "i", "t">>)}

Families ==
  { <<<<"p", "a", "d", "d", "i", "n", "g">>, <<"p", "a", "d", "d", "i", "n", "g", "T", "o", "p">>, <<"p", "a", "d", "d", "i", "n", "g", "R", "i", "g", "h", "t">>, <<"p", "a", "d", "d", "i", "n", "g", "B", "o", "t", "t", "o", "m">>, <<"p", "a", "d", "d", "i", "n", "g", "L", "e", "f", "t">>>>,
    <<<<"m", "a", "r", "g", "i", "n">>, <<"m", "a", "r", "g", "i", "n", "T", "o", "p">>, <<"m", "a", "r", "g", "i", "n", "R", "i", "g", "h", "t">>, <<"m", "a", "r", "g", "i", "n", "B", "o", "t", "t", "o", "m">>, <<"m", "a", "r", "g", "i", "n", "L", "e", "f", "t">>>>,
    <<<<"i", "n", "s", "e", "t">>, <<"t", "o", "p">>, <<"r", "i", "g", "h", "t">>, <<"b", "o", "t", "t", "o", "m">>, <<"l", "e", "f", "t">>>> }

\* A shorthand and its four per-edge properties, each given or not
FamilySources ==
  {Object({<<f[1], b>>, <<f[2], e[1]>>, <<f[3], e[2]>>, <<f[4], e[3]>>, <<f[5], e[4]>>}) :
     f \in Families, b \in BaseValues, e \in [1..4 -> EdgeValues]}

PropertyPool ==
  { <<<<"w", "i", "d", "t", "h">>, Num(100, 1)>>, <<<<"w", "i", "d", "t", "h">>, Str(<<"5", "0", "%">>)>>, <<<<"w", "i", "d", "t", "h">>, Str(<<"i", "n", "h", "e", "r", "i", "t">>)>>,
    <<<<"w", "i", "d", "t", "h">>, Str(<<"-", "w", "e", "b", "k", "i", "t", "-", "5", "p", "x">>)>>, <<<<"w", "i", "d", "t", "h">>, Str(<<"-", "1", "0", "p", "x">>)>>,
    <<<<"w", "i", "d", "t", "h">>, Str(<<"-", "k", "h", "t", "m", "l", "-", "5", "p", "x">>)>>, <<<<"w", "i", "d", "t", "h">>, Null>>, <<<<"w", "i", "d", "t", "h">>, Undefined>>,
    <<<<"b", "a", "c", "k", "g", "r", "o", "u", "n", "d", "C", "o", "l", "o", "r">>, Str(<<"#", "f", "f", "f">>)>>, <<<<"b", "a", "c", "k", "g", "r", "o", "u", "n", "d", "C", "o", "l", "o", "r">>, Str(<<"r", "e", "d">>)>>,
    <<<<"b", "a", "c", "k", "g", "r", "o", "u", "n", "d", "C", "o", "l", "o", "r">>, Str(<<"i", "n", "i", "t", "i", "a", "l">>)>>, <<<<"b", "a", "c", "k", "g", "r", "o", "u", "n", "d", "C", "o", "l", "o", "r">>, Str(<<"-", "m", "o", "z", "-", "#", "f", "f", "f">>)>>,
    <<<<"c", "o", "l", "o", "r">>, Str(<<"r", "g", "b", "a", "(", "0", ",", "0", ",", "0", ",", "2", ")">>)>>, <<<<"c", "o", "l", "o", "r">>, Num(0, 1)>>,
    <<<<"a", "s", "p", "e", "c", "t", "R", "a", "t", "i", "o">>, Str(<<"1", "6", "/", "9">>)>>, <<<<"a", "s", "p", "e", "c", "t", "R", "a", "t", "i", "o">>, Str(<<"1", "/", "0">>)>>,
    <<<<"b", "o", "r", "d", "e", "r", "W", "i", "d", "t", "h">>, Str(<<"1", "p", "x", " ", "1", "p", "x">>)>>, <<<<"b", "o", "r", "d", "e", "r", "W", "i", "d", "t", "h">>, Str(<<"1", " ", "2", " ", "3", " ", "4", " ", "5">>)>>,
    <<<<"b", "o", "r", "d", "e", "r", "R", "a", "d", "i", "u", "s">>, Str(<<"5", "%", " ", "5", "%", " ", "5", "%", " ", "5", "%">>)>>, <<<<"b", "o", "r", "d", "e", "r", "R", "a", "d", "i", "u", "s">>, Str(<<"u", "n", "s", "e", "t">>)>>,
    <<<<"d", "i", "s", "p", "l", "a", "y">>, Str(<<"f", "l", "e", "x">>)>>, <<<<"d", "i", "s", "p", "l", "a", "y">>, Str(<<"i", "n", "l", "i", "n", "e">>)>>,
    <<<<"d", "i", "s", "p", "l", "a", "y">>, Str(<<"r", "e", "v", "e", "r", "t">>)>>,
    <<<<"p", "o", "s", "i", "t", "i", "o", "n">>, Str(<<"s", "t", "a", "t", "i", "c">>)>>,
    <<<<"t", "e", "x", "t", "A", "l", "i", "g", "n">>, Str(<<"c", "e", "n", "t", "e", "r">>)>>, <<<<"t", "e", "x", "t", "A", "l", "i", "g", "n">>, Str(<<"m", "a", "t", "c", "h", "-", "p", "a", "r", "e", "n", "t">>)>>,
    <<<<"f", "l", "e", "x", "D", "i", "r", "e", "c", "t", "i", "o", "n">>, Str(<<"r", "o", "w">>)>>, <<<<"f", "l", "e", "x", "D", "i", "r", "e", "c", "t", "i", "o", "n">>, Str(<<"i", "n", "h", "e", "r", "i", "t">>)>>,
    <<<<"f", "l", "e", "x", "G", "r", "o", "w">>, Str(<<"2">>)>>, <<<<"f", "l", "e", "x", "G", "r", "o", "w">>, Str(<<"x">>)>>,
    <<<<"j", "u", "s", "t", "i", "f", "y", "C", "o", "n", "t", "e", "n", "t">>, Str(<<"c", "e", "n", "t", "e", "r">>)>>,
    <<<<"f", "o", "o">>, Str(<<"b", "a", "r">>)>>,
    <<<<"p", "a", "d", "d", "i", "n", "g">>, Str(<<"1", " ", "2", " ", "3", " ", "4", " ", "5">>)>>, <<<<"p", "a", "d", "d", "i", "n", "g">>, Str(<<"1", "0", "p", "x">>)>>,
    <<<<"p", "a", "d", "d", "i", "n", "g">>, Str(<<"u", "n", "s", "e", "t">>)>>, <<<<"p", "a", "d", "d", "i", "n", "g">>, Str(<<"-", "w", "e", "b", "k", "i", "t", "-", "5", "p", "x">>)>>,
    <<<<"p", "a", "d", "d", "i", "n", "g">>, Null>>,
    <<<<"p", "a", "d", "d", "i", "n", "g", "T", "o", "p">>, Str(<<"5", "p", "x">>)>>, <<<<"p", "a", "d", "d", "i", "n", "g", "T", "o", "p">>, Null>>,
    <<<<"m", "a", "r", "g", "i", "n">>, Str(<<"1", " ", "2", " ", "3", " ", "4", " ", "5">>)>>,
    <<<<"t", "o", "p">>, Str(<<"-", "k", "h", "t", "m", "l", "-", "1", "p", "x">>)>>, <<<<"t", "o", "p">>, Str(<<"i", "n", "i", "t", "i", "a", "l">>)>> }

RECURSIVE SubsetsUpTo(_, _)
\* The subsets of S with at most k elements
SubsetsUpTo(S, k) ==
  IF k = 0 THEN {{}}
  ELSE LET smaller == SubsetsUpTo(S, k - 1)
       IN  smaller \cup {T \cup {x} : T \in smaller, x \in S}

\* At most MaxProps properties of the pool, no name twice
MixedSources ==
  {Object(ps) : ps \in {qs \in SubsetsUpTo(PropertyPool, MaxProps) :
                          \A p, q \in qs : p[1] = q[1] => p = q}}

StyleSources == FamilySources \cup MixedSources \cup {Undefined}

InitStyle ==
  /\ pc = "call"
  /\ fn = "parseStyle"
  /\ arg \in StyleSources
  /\ ret = Undefined
  /\ utils \in {"drop", "strip"}
  /\ NoSteps

CallParseStyle ==
  /\ pc = "call"
  /\ fn = "parseStyle"
  /\ ret' = parseStyle(arg)
  /\ pc' = "done"
  /\ UNCHANGED <<fn, arg, utils, stepVars>>

NextStyle == CallParseStyle

SpecStyle == InitStyle /\ [][NextStyle]_vars

(***************************************************************************)
(* Properties of parseStyle                                                *)
(***************************************************************************)
IsSource(v) == "obj" \in DOMAIN v

\* The source without its property k
Without(source, k) == [obj |-> [j \in DOMAIN source.obj \ {k} |-> source.obj[j]]]

\* The source with its property k set to v
With(source, k, v) == [obj |-> [j \in DOMAIN source.obj |-> IF j = k THEN v ELSE source.obj[j]]]

\* The parser of property k is called on value v and throws
ParserThrows(k, v) ==
  LET cleaned == IF utils = "strip" THEN removeGlobalValuesStrip(v) ELSE removeGlobalValues(v)
  IN  /\ k \notin SKIPPED_PROPERTIES
      /\ k \in DOMAIN PROPERTY_PARSERS
      /\ PROPERTY_PARSERS[k] # "SKIP_PARSING_SYMBOL"
      /\ IsOk(cleaned)
      /\ ~IsUndefined(cleaned.ok) /\ ~IsNull(cleaned.ok)
      /\ IsThrow(applyParser(PROPERTY_PARSERS[k], cleaned.ok))

\* C1: when the parser of one property throws, parseStyle omits only that
\* key: it behaves exactly as on the same input without that property, and so
\* does not throw because of it.
C1_FailingPropertyOnlyOmitted ==
  (Returned("parseStyle") /\ IsSource(arg)) =>
    \A k \in DOMAIN arg.obj :
      ParserThrows(k, arg.obj[k]) => ret = parseStyle(Without(arg, k))

\* A length without the identity of its object
StripId(v) == IF IsUnitObject(v) THEN [unit |-> v.unit, val |-> v.val] ELSE v

\* The four edges <<top, right, bottom, left>> a sides value stands for
EdgesOf(v) ==
  IF IsArr(v) /\ Len(v.arr) = 2 THEN <<v.arr[1], v.arr[2], v.arr[1], v.arr[2]>>
  ELSE IF IsArr(v) THEN v.arr
  ELSE <<v, v, v, v>>

AllEdgesEqual(v) ==
  \A i, j \in 1..4 : StripId(EdgesOf(v)[i]) = StripId(EdgesOf(v)[j])

SidesKeys == {<<"p", "a", "d", "d", "i", "n", "g">>, <<"m", "a", "r", "g", "i", "n">>, <<"i", "n", "s", "e", "t">>, <<"b", "o", "r", "d", "e", "r", "_", "w", "i", "d", "t", "h">>, <<"b", "o", "r", "d", "e", "r", "_", "r", "a", "d", "i", "u", "s">>}

\* C2: a sides value emitted for padding, margin, inset, border-width or
\* border-radius whose four resolved edges are all equal is in the Single
\* form, never a 2- or 4-element list.
C2_EqualEdgesAreSingle ==
  (Returned("parseStyle") /\ IsOk(ret) /\ IsBag(ret.ok)) =>
    \A k \in SidesKeys \cap DOMAIN ret.ok.bag :
      AllEdgesEqual(ret.ok.bag[k]) => ~IsArr(ret.ok.bag[k])

IsLengthInput(v) == IsNumber(v) \/ IsStr(v)

\* The edges the CSS shorthand rule assigns for the shorthand value v
ShorthandEdges(v) ==
  IF IsNumber(v) THEN <<v, v, v, v>>
  ELSE
    LET t == TokensOf(v.str)
        u == [i \in 1..Len(t) |-> parseLengthUnit(Str(t[i]), i)]
    IN  IF Len(t) = 1 THEN <<u[1], u[1], u[1], u[1]>>
        ELSE IF Len(t) = 2 THEN <<u[1], u[2], u[1], u[2]>>
        ELSE IF Len(t) = 3 THEN <<u[1], u[2], u[3], u[2]>>
        ELSE <<u[1], u[2], u[3], u[4]>>

\* C3: for padding, margin and inset each resolved edge equals the per-edge
\* override when it is present, otherwise the value the shorthand expansion
\* assigns to that edge when a shorthand is present, otherwise 0.
C3_EdgePrecedence ==
  (Returned("parseStyle") /\ IsSource(arg) /\ IsOk(ret)) =>
    \A f \in Families :
      (/\ \E i \in 1..5 : f[i] \in DOMAIN arg.obj
       /\ \A i \in 1..5 : f[i] \in DOMAIN arg.obj => IsLengthInput(arg.obj[f[i]])
       /\ f[1] \in DOMAIN arg.obj /\ IsStr(arg.obj[f[1]])
            => Len(TokensOf(arg.obj[f[1]].str)) \in 1..4)
      =>
      /\ IsBag(ret.ok) /\ f[1] \in DOMAIN ret.ok.bag
      /\ \A e \in 1..4 :
           StripId(EdgesOf(ret.ok.bag[f[1]])[e]) =
             IF f[e + 1] \in DOMAIN arg.obj
             THEN StripId(parseLengthUnit(arg.obj[f[e + 1]], 0))
             ELSE IF f[1] \in DOMAIN arg.obj
             THEN StripId(ShorthandEdges(arg.obj[f[1]])[e])
             ELSE Zero

IsGlobalKeyword(v) == IsStr(v) /\ isGlobalValue(v.str)

\* C5: a property whose value is inherit, initial, revert or unset contributes
\* nothing to the output: parseStyle returns what it returns without that
\* property, for the shorthands and per-edge keys too.
C5_GlobalKeywordContributesNothing ==
  (Returned("parseStyle") /\ IsSource(arg)) =>
    \A k \in DOMAIN arg.obj :
      IsGlobalKeyword(arg.obj[k]) => ret = parseStyle(Without(arg, k))

HasKnownPrefix(v) == IsStr(v) /\ isPrefixed(v.str)

\* The value without its vendor prefix
Unprefixed(v) ==
  LET i == CHOOSE j \in 1..Len(prefixes) : startsWith(v.str, prefixes[j])
  IN  Str(Drop(v.str, Len(prefixes[i])))

\* '-' followed by a letter, and none of the four known prefixes
HasUnknownPrefix(v) ==
  /\ IsStr(v) /\ Len(v.str) >= 2 /\ v.str[1] = "-"
  /\ \E i \in 1..26 : LowerLetters[i] = v.str[2]
  /\ ~isPrefixed(v.str)

\* C6: a value starting with -webkit-, -moz-, -o- or -ms- is parsed as the
\* value without the prefix, and a value with an unrecognized vendor prefix
\* raises an error.
C6_PrefixStrippedOrError ==
  (Returned("parseStyle") /\ IsSource(arg)) =>
    \A k \in DOMAIN arg.obj :
      /\ HasKnownPrefix(arg.obj[k]) => ret = parseStyle(With(arg, k, Unprefixed(arg.obj[k])))
      /\ HasUnknownPrefix(arg.obj[k]) => IsThrow(ret)

\* C7: the bag returned by parseStyle has no key whose value is null or
\* undefined, and is never empty: when nothing is resolved parseStyle
\* returns undefined.
C7_NoNullValueNoEmptyBag ==
  (Returned("parseStyle") /\ IsOk(ret)) =>
    \/ IsUndefined(ret.ok)
    \/ /\ IsBag(ret.ok)
       /\ DOMAIN ret.ok.bag # {}
       /\ \A k \in DOMAIN ret.ok.bag :
            ~IsNull(ret.ok.bag[k]) /\ ~IsUndefined(ret.ok.bag[k])

C7_Witness ==
  /\ Returned("parseStyle")
  /\ arg = Object({<<<<"t", "e", "x", "t", "A", "l", "i", "g", "n">>, Str(<<"m", "a", "t", "c", "h", "-", "p", "a", "r", "e", "n", "t">>)>>, <<<<"w", "i", "d", "t", "h">>, Null>>})
  /\ ret = Ok(Undefined)

(***************************************************************************)
(* Calls of parseColor on '#rrggbbaa'                                      *)
(***************************************************************************)
\* Nibbles giving the bytes 0x00, 0x07, 0x08, 0x0f, 0x70, ... 0xff
LongHexChars == {"0", "7", "8", "f"}

LongHexInputs ==
  {<<"#">> \o s : s \in SeqsOf(LongHexChars, 8)}
    \cup {<<"#", "F", "F", "8", "0", "0", "0", "A", "B">>, <<"#", "A", "B", "C", "D", "E", "F", "1", "2">>, <<"#", "8", "0", "0", "0", "0", "0", "0", "0">>, <<"#", "7", "f", "f", "f", "f", "f", "f", "f">>, <<"#", "d", "e", "a", "d", "B", "E", "E", "F">>}

InitLongHex ==
  /\ pc = "call"
  /\ fn = "parseColor"
  /\ arg \in LongHexInputs
  /\ ret = Undefined
  /\ utils = "drop"
  /\ NoSteps

SpecLongHex == InitLongHex /\ [][NextColor]_vars

IsLongHex(s) == IsWellFormedHex(s) /\ Len(s) = 9

\* The byte written by the two hex digits at positions i and i + 1
ByteAt(s, i) == 16 * DigitVal(s[i]) + DigitVal(s[i + 1])

InUnit(v, hi) == IsNum(v) /\ ~Less(v, Num(0, 1)) /\ ~Less(Num(hi, 1), v)

\* C11: for every '#RRGGBBAA' (also with RR >= 0x80, where the parsed value
\* exceeds 2^31 - 1) parseColor returns the components (RR, GG, BB, AA/255),
\* every channel in [0,255] and alpha in [0,1].
C11_LongHexComponents ==
  (Returned("parseColor") /\ IsLongHex(arg)) =>
    /\ ret = Ok(Arr(<<Num(ByteAt(arg, 2), 1), Num(ByteAt(arg, 4), 1),
                      Num(ByteAt(arg, 6), 1), Num(ByteAt(arg, 8), 255)>>))
    /\ \A i \in 1..3 : InUnit(ret.ok.arr[i], 255)
    /\ InUnit(ret.ok.arr[4], 1)

C11_Witness ==
  /\ Returned("parseColor")
  /\ arg = <<"#", "f", "f", "8", "0", "0", "0", "8", "0">>
  /\ ret = Ok(Arr(<<Num(255, 1), Num(128, 1), Num(0, 1), Num(128, 255)>>))

(***************************************************************************)
(* linear-gradient-parsing.ts (src/unnamed/part_016)                       *)
(*                                                                         *)
(* Angles are exact: a finite number n/d, a Tiny number, or, for radians,  *)
(* [overPi |-> q, plus |-> r], the real number q/pi + r.                   *)
(***************************************************************************)
toLowerCaseStr(s) == [i \in 1..Len(s) |-> IF IsUpper(s[i]) THEN toLowerCase(s[i]) ELSE s[i]]

IsOverPi(v) == "overPi" \in DOMAIN v

\* 333/106 < pi < 355/113
PiLo == Num(333, 106)

PiHi == Num(355, 113)

\* Number of whole turns a radian literal of the model can make
MaxWraps == 200

\* Bounds of the real number q/pi + r
OverPiLo(v) ==
  LET q == v.overPi.num
      b == IF q.n < 0 THEN PiLo.num ELSE PiHi.num
  IN  Num(q.n * b.d + v.plus * q.d * b.n, q.d * b.n)

OverPiHi(v) ==
  LET q == v.overPi.num
      b == IF q.n < 0 THEN PiHi.num ELSE PiLo.num
  IN  Num(q.n * b.d + v.plus * q.d * b.n, q.d * b.n)

\* a * b, b a positive integer
Times(a, b) == IF IsTiny(a) THEN a ELSE Num(a.num.n * b, a.num.d)

\* a / Math.PI
OverPi(a) == IF IsTiny(a) \/ a = Num(0, 1) THEN a ELSE [overPi |-> a, plus |-> 0]

\* a % m of JavaScript (the sign of the dividend), m a positive integer
Rem(a, m) ==
  IF IsTiny(a) THEN a
  ELSE IF IsOverPi(a) THEN
    LET q == a.overPi
        mag == Num(Abs(q.num.n), q.num.d)
        k == CHOOSE j \in 0..MaxWraps :
               /\ ~Less(mag, Num(j * m * PiHi.num.n, PiHi.num.d))
               /\ Less(mag, Num((j + 1) * m * PiLo.num.n, PiLo.num.d))
    IN  [overPi |-> q, plus |-> IF q.num.n < 0 THEN k * m ELSE -(k * m)]
  ELSE Num((IF a.num.n < 0 THEN -1 ELSE 1) * (Abs(a.num.n) % (m * a.num.d)), a.num.d)

\* a < 0
Negative(a) ==
  IF IsTiny(a) THEN a.tiny
  ELSE IF IsOverPi(a)
  THEN CHOOSE b \in BOOLEAN : IF b THEN Less(OverPiHi(a), Num(0, 1))
                                   ELSE ~Less(OverPiLo(a), Num(0, 1))
  ELSE a.num.n < 0

\* a + m in double arithmetic, m a positive integer: exact but for Tiny a
Plus(a, m) ==
  IF IsTiny(a) THEN Num(m, 1)
  ELSE IF IsOverPi(a) THEN [overPi |-> a.overPi, plus |-> a.plus + m]
  ELSE Num(a.num.n + m * a.num.d, a.num.d)

normalizeAngle(angleDegrees) ==
  LET add(normalized) == IF Negative(normalized) THEN Plus(normalized, 360) ELSE normalized
  IN  add(Rem(angleDegrees, 360))

Max(a, b) == IF a > b THEN a ELSE b

\* The depth of parentheses after the character char
depthAfter(depth, char) ==
  IF char = "(" THEN depth + 1
  ELSE IF char = ")" THEN Max(0, depth - 1)
  ELSE depth

\* const part = slice.trim(); if (part) parts.push(part)
pushPart(parts, slice) == IF trim(slice) # <<>> THEN Append(parts, trim(slice)) ELSE parts

RECURSIVE splitTopLevelFrom(_, _, _, _, _)
\* The loop of splitTopLevel from index i (1-based), the current part
\* beginning at start
splitTopLevelFrom(input, separator, i, depth, start) ==
  IF i > Len(input) THEN pushPart(<<>>, SubSeq(input, start, Len(input)))
  ELSE IF depthAfter(depth, input[i]) = 0 /\ input[i] = separator
  THEN pushPart(<<>>, SubSeq(input, start, i - 1))
         \o splitTopLevelFrom(input, separator, i + 1, 0, i + 1)
  ELSE splitTopLevelFrom(input, separator, i + 1, depthAfter(depth, input[i]), start)

\* splitTopLevel for a one-character separator
splitTopLevel(input, separator) == splitTopLevelFrom(input, separator, 1, 0, 1)

DirectionWords == {<<"t", "o", "p">>, <<"b", "o", "t", "t", "o", "m">>, <<"l", "e", "f", "t">>, <<"r", "i", "g", "h", "t">>}

directionMap(word) ==
  IF word = <<"t", "o", "p">> THEN 0
  ELSE IF word = <<"r", "i", "g", "h", "t">> THEN 90
  ELSE IF word = <<"b", "o", "t", "t", "o", "m">> THEN 180
  ELSE 270

\* /^to\s+(top|bottom|left|right)(?:\s+(top|bottom|left|right))?$/i
parseDirection(directionArgument) ==
  LET angleOf(primaryAngle, secondaryAngle) ==
        IF {0, 90} \subseteq {primaryAngle, secondaryAngle} THEN Num(45, 1)
        ELSE IF {90, 180} \subseteq {primaryAngle, secondaryAngle} THEN Num(135, 1)
        ELSE IF {180, 270} \subseteq {primaryAngle, secondaryAngle} THEN Num(225, 1)
        ELSE IF {270, 0} \subseteq {primaryAngle, secondaryAngle} THEN Num(315, 1)
        ELSE normalizeAngle(Num(primaryAngle + secondaryAngle, 2))
      match(words) ==
        IF ~(/\ Len(words) \in {2, 3}
             /\ words[1] = <<"t", "o">>
             /\ \A i \in 2..Len(words) : words[i] \in DirectionWords)
        THEN Undefined
        ELSE IF Len(words) = 2 THEN Num(directionMap(words[2]), 1)
        ELSE angleOf(directionMap(words[2]), directionMap(words[3]))
  IN  match(splitWhitespace(toLowerCaseStr(directionArgument)))

AngleUnits == {<<>>, <<"d", "e", "g">>, <<"r", "a", "d">>, <<"t", "u", "r", "n">>}

\* /^(-?\d*\.?\d+)\s*(deg|rad|turn)?$/i: n is the length of match[1]
parseAngle(angleArgument) ==
  LET convert(value, unit) ==
        IF unit = <<"r", "a", "d">> THEN OverPi(Times(value, 180))
        ELSE IF unit = <<"t", "u", "r", "n">> THEN Times(value, 360)
        ELSE value
      match(n, unit) ==
        IF n = 0 \/ unit \notin AngleUnits THEN Undefined
        ELSE convert(parseFloat(Take(angleArgument, n)), unit)
      number(sign, k, f) ==
        match(IF f > 0 THEN sign + k + 1 + f ELSE IF k > 0 THEN sign + k ELSE 0,
              toLowerCaseStr(trimStart(Drop(angleArgument,
                IF f > 0 THEN sign + k + 1 + f ELSE sign + k))))
      fraction(sign, k) ==
        number(sign, k,
               IF Len(angleArgument) > sign + k /\ angleArgument[sign + k + 1] = "."
               THEN SpanLen(Drop(angleArgument, sign + k + 1), DecChars) ELSE 0)
      digits(sign) == fraction(sign, SpanLen(Drop(angleArgument, sign), DecChars))
  IN  digits(IF angleArgument # <<>> /\ angleArgument[1] = "-" THEN 1 ELSE 0)

parseAngleOrDirectionArg(a) ==
  LET orElse(direction) ==
        IF ~IsUndefined(direction) THEN direction ELSE parseAngle(trim(a))
  IN  orElse(parseDirection(trim(a)))

parsePositionToken(positionToken) ==
  LET parse(trimmed) ==
        IF endsWith(trimmed, "%")
        THEN Divide(parseFloat(Take(trimmed, Len(trimmed) - 1)), Num(100, 1))
        ELSE parseFloat(trimmed)
  IN  parse(trim(positionToken))

\* The parsed stop {color, position}, or the exception of parseColor
parseStop(stopString) ==
  LET stop(color, position) ==
        IF IsThrow(color) THEN color
        ELSE Ok([color |-> color.ok, position |-> position])
      parse(tokens) ==
        stop(parseColor(IF tokens # <<>> THEN tokens[1] ELSE trim(stopString)),
             IF Len(tokens) >= 2 THEN parsePositionToken(tokens[2]) ELSE Undefined)
  IN  parse(splitTopLevel(trim(stopString), " "))

\* clamp01 leaving its argument as it is
clamp01_unclamped(value) == value

\* Math.max(0, Math.min(1, value))
clamp01(value) ==
  IF IsNaN(value) THEN NaN
  ELSE IF Less(value, Num(0, 1)) THEN Num(0, 1)
  ELSE IF Less(Num(1, 1), value) THEN Num(1, 1)
  ELSE value

evenlyDistribute(parsedStops) ==
  [i \in 1..Len(parsedStops) |->
     [color |-> parsedStops[i].color,
      position |-> IF Len(parsedStops) = 1 THEN Num(0, 1)
                   ELSE Num(i - 1, Len(parsedStops) - 1)]]

RECURSIVE interiorStops_interpolated(_, _)
\* The loop of finalizeStops giving a stop without a position one in between
interiorStops_interpolated(parsedStops, i) ==
  IF i > Len(parsedStops) - 1 THEN <<>>
  ELSE <<[color |-> parsedStops[i].color,
          position |-> IF IsNumber(parsedStops[i].position)
                       THEN clamp01(parsedStops[i].position)
                       ELSE Num(i - 1, Len(parsedStops) - 1)]>>
         \o interiorStops_interpolated(parsedStops, i + 1)

RECURSIVE interiorStops(_, _)
\* The loop over the stops i..stopCount - 1 (1-based) of finalizeStops
interiorStops(parsedStops, i) ==
  IF i > Len(parsedStops) - 1 THEN <<>>
  ELSE (IF IsNumber(parsedStops[i].position)
        THEN <<[color |-> parsedStops[i].color,
                position |-> clamp01(parsedStops[i].position)]>>
        ELSE <<>>) \o interiorStops(parsedStops, i + 1)

RECURSIVE dedupe(_, _)
\* stops.reduce(...) of finalizeStops: acc after the stops of rest
dedupe(acc, rest) ==
  IF rest = <<>> THEN acc
  ELSE IF acc = <<>> \/ ~StrictEq(acc[Len(acc)].position, rest[1].position)
  THEN dedupe(Append(acc, rest[1]), Tail(rest))
  ELSE dedupe(acc, Tail(rest))

RECURSIVE insertStop(_, _)
\* Stable insertion of stop into the sorted array sorted
insertStop(sorted, stop) ==
  IF sorted = <<>> THEN <<stop>>
  ELSE IF Less(stop.position, sorted[Len(sorted)].position)
  THEN Append(insertStop(Take(sorted, Len(sorted) - 1), stop), sorted[Len(sorted)])
  ELSE Append(sorted, stop)

RECURSIVE stableSort(_)
stableSort(stops) ==
  IF stops = <<>> THEN <<>>
  ELSE insertStop(stableSort(Take(stops, Len(stops) - 1)), stops[Len(stops)])

\* The arrays .sort((a, b) => a.position - b.position) can produce: the stable
\* order, or, when a position is NaN (the comparator is then inconsistent and
\* the order implementation-defined), any order
sortByPosition(stops) ==
  IF \E i \in 1..Len(stops) : IsNaN(stops[i].position)
  THEN {[i \in 1..Len(stops) |-> stops[p[i]]] :
          p \in {q \in [1..Len(stops) -> 1..Len(stops)] :
                   \A i, j \in 1..Len(stops) : q[i] = q[j] => i = j}}
  ELSE {stableSort(stops)}

\* The arrays finalizeStops can return
finalizeStops(parsedStops) ==
  IF \A i \in 1..Len(parsedStops) : IsUndefined(parsedStops[i].position)
  THEN {evenlyDistribute(parsedStops)}
  ELSE sortByPosition(dedupe(<<>>,
         <<[color |-> parsedStops[1].color, position |-> Num(0, 1)]>>
           \o interiorStops(parsedStops, 2)
           \o <<[color |-> parsedStops[Len(parsedStops)].color, position |-> Num(1, 1)]>>))

\* value.match(/^linear-gradient\((.*)\)$/i)?.[1]
fnMatchOf(value) ==
  IF /\ Len(value) >= 17
     /\ toLowerCaseStr(Take(value, 16)) = <<"l", "i", "n", "e", "a", "r", "-", "g", "r", "a", "d", "i", "e", "n", "t", "(">>
     /\ value[Len(value)] = ")"
  THEN Str(SubSeq(value, 17, Len(value) - 1))
  ELSE Undefined

\* parseLinearGradient with the test stopArgs.length < 1
parseLinearGradient_oneStop(value) ==
  LET gradient(effectiveAngle, parsedStops) ==
        IF \E i \in 1..Len(parsedStops) : IsThrow(parsedStops[i])
        THEN {Throw("Invalid color")}
        ELSE {Ok([angle |-> effectiveAngle, stops |-> stops]) :
                stops \in finalizeStops([i \in 1..Len(parsedStops) |-> parsedStops[i].ok])}
      stopsOf(effectiveAngle, stopArgs) ==
        IF Len(stopArgs) < 1
        THEN {Throw("linear-gradient requires at least two color stops")}
        ELSE gradient(effectiveAngle, [i \in 1..Len(stopArgs) |-> parseStop(stopArgs[i])])
      angleOf(args, angle) ==
        stopsOf(IF ~IsUndefined(angle) THEN normalizeAngle(angle) ELSE Num(180, 1),
                IF ~IsUndefined(angle) THEN Tail(args) ELSE args)
      argsOf(args) ==
        IF args = <<>> THEN {Throw("linear-gradient requires at least one argument")}
        ELSE angleOf(args, parseAngleOrDirectionArg(trim(args[1])))
      inner(fnMatch) ==
        IF IsUndefined(fnMatch) \/ fnMatch.str = <<>>
        THEN {Throw("Invalid linear-gradient syntax")}
        ELSE argsOf(splitTopLevel(trim(fnMatch.str), ","))
  IN  IF value = <<"n", "o", "n", "e">> THEN {Ok(Undefined)}
      ELSE inner(fnMatchOf(value))

\* The results parseLinearGradient can return
parseLinearGradient(value) ==
  LET gradient(effectiveAngle, parsedStops) ==
        IF \E i \in 1..Len(parsedStops) : IsThrow(parsedStops[i])
        THEN {Throw("Invalid color")}
        ELSE {Ok([angle |-> effectiveAngle, stops |-> stops]) :
                stops \in finalizeStops([i \in 1..Len(parsedStops) |-> parsedStops[i].ok])}
      stopsOf(effectiveAngle, stopArgs) ==
        IF Len(stopArgs) < 2
        THEN {Throw("linear-gradient requires at least two color stops")}
        ELSE gradient(effectiveAngle, [i \in 1..Len(stopArgs) |-> parseStop(stopArgs[i])])
      angleOf(args, angle) ==
        stopsOf(IF ~IsUndefined(angle) THEN normalizeAngle(angle) ELSE Num(180, 1),
                IF ~IsUndefined(angle) THEN Tail(args) ELSE args)
      argsOf(args) ==
        IF args = <<>> THEN {Throw("linear-gradient requires at least one argument")}
        ELSE angleOf(args, parseAngleOrDirectionArg(trim(args[1])))
      inner(fnMatch) ==
        IF IsUndefined(fnMatch) \/ fnMatch.str = <<>>
        THEN {Throw("Invalid linear-gradient syntax")}
        ELSE argsOf(splitTopLevel(trim(fnMatch.str), ","))
  IN  IF value = <<"n", "o", "n", "e">> THEN {Ok(Undefined)}
      ELSE inner(fnMatchOf(value))

(***************************************************************************)
(* Calls of parseLinearGradient                                            *)
(*                                                                         *)
(* arg is [raw |-> string], or the parts [head, angle, stops] of the       *)
(* string head angle, stop, ..., stop ")"                                  *)
(***************************************************************************)
\* The color of the i-th stop: every stop has its own color
StopColor(i) ==
  IF i = 2 THEN <<"r", "g", "b", "(", "3", "4", ",", " ", "3", "4", ",", " ", "3", "4", ")">> ELSE <<"#", DecDigits[i + 1], DecDigits[i + 1], DecDigits[i + 1]>>

PositionTokens == {<<>>, <<"0", "%">>, <<"5", "0", "%">>, <<"1", "0", "0", "%">>, <<"1", "2", "0", "%">>, <<"-", "1", "0", "%">>, <<"0", ".", "5">>}

\* Lists of position tokens, and short lists with a token that is no number
StopLists ==
  UNION {[1..n -> PositionTokens] : n \in 0..MaxStops}
    \cup UNION {[1..n -> {<<>>, <<"5", "0", "%">>, <<"x">>}] : n \in 2..4}

NoAngle == [word |-> <<>>]

AngleLiterals ==
  [sign : {<<>>, <<"-">>},
   mag : {<<"0">>, <<"9", "0">>, <<"3", "6", "0">>, <<"4", "5", "0">>, <<"7", "2", "0">>, <<"0", ".", "2", "5">>, <<".", "5">>, <<"1", ".", "5">>, <<"1", ".">>,
          <<"0", ".", "0", "0", "0", "0", "0", "0", "0", "0", "0", "0", "0", "0", "0", "0", "0", "0", "0", "1">>},
   gap : {<<>>, <<" ">>},
   unit : {<<>>, <<"d", "e", "g">>, <<"D", "E", "G">>, <<"t", "u", "r", "n">>, <<"r", "a", "d">>, <<"g", "r", "a", "d">>}]

DirectionArgs ==
  {[word |-> w] : w \in {<<"t", "o", " ", "t", "o", "p">>, <<"t", "o", " ", "r", "i", "g", "h", "t">>, <<"t", "o", " ", "b", "o", "t", "t", "o", "m">>, <<"t", "o", " ", "l", "e", "f", "t">>,
                         <<"t", "o", " ", "t", "o", "p", " ", "r", "i", "g", "h", "t">>, <<"t", "o", " ", "r", "i", "g", "h", "t", " ", "b", "o", "t", "t", "o", "m">>, <<"t", "o", " ", "b", "o", "t", "t", "o", "m", " ", "l", "e", "f", "t">>,
                         <<"t", "o", " ", "l", "e", "f", "t", " ", "t", "o", "p">>, <<"t", "o", " ", "l", "e", "f", "t", " ", "r", "i", "g", "h", "t">>, <<"t", "o", " ", "t", "o", "p", " ", "t", "o", "p">>,
                         <<"T", "O", " ", " ", "T", "o", "p">>, <<"t", "o">>, <<"t", "o", " ", "t", "o", "p", "-", "l", "e", "f", "t">>, <<"t", "o", "p">>}}

GradientHeads == {<<"l", "i", "n", "e", "a", "r", "-", "g", "r", "a", "d", "i", "e", "n", "t", "(">>, <<"L", "I", "N", "E", "A", "R", "-", "G", "R", "A", "D", "I", "E", "N", "T", "(">>, <<"l", "i", "n", "e", "a", "r", "-", "g", "r", "a", "d", "i", "e", "n", "t", "(", " ">>}

RawInputs ==
  {[raw |-> s] : s \in
     { <<"n", "o", "n", "e">>, <<>>, <<"l", "i", "n", "e", "a", "r", "-", "g", "r", "a", "d", "i", "e", "n", "t">>, <<"l", "i", "n", "e", "a", "r", "-", "g", "r", "a", "d", "i", "e", "n", "t", "(", ")">>, <<"l", "i", "n", "e", "a", "r", "-", "g", "r", "a", "d", "i", "e", "n", "t", "(", " ", ")">>,
       <<"r", "a", "d", "i", "a", "l", "-", "g", "r", "a", "d", "i", "e", "n", "t", "(", "#", "0", "0", "0", ",", " ", "#", "f", "f", "f", ")">>, <<"l", "i", "n", "e", "a", "r", "-", "g", "r", "a", "d", "i", "e", "n", "t", "(", "#", "0", "0", "0", ",", " ", "#", "f", "f", "f">>,
       <<" ", "l", "i", "n", "e", "a", "r", "-", "g", "r", "a", "d", "i", "e", "n", "t", "(", "#", "0", "0", "0", ",", " ", "#", "f", "f", "f", ")">>, <<"l", "i", "n", "e", "a", "r", "-", "g", "r", "a", "d", "i", "e", "n", "t", "(", "#", "0", "0", "0", ",", " ", "#", "f", "f", "f", ")", " ">>,
       <<"-", "w", "e", "b", "k", "i", "t", "-", "l", "i", "n", "e", "a", "r", "-", "g", "r", "a", "d", "i", "e", "n", "t", "(", "#", "0", "0", "0", ",", " ", "#", "f", "f", "f", ")">>, <<"l", "i", "n", "e", "a", "r", "-", "g", "r", "a", "d", "i", "e", "n", "t", "(", "#", "0", "0", "0", ",", ",", "#", "f", "f", "f", ")">>,
       <<"l", "i", "n", "e", "a", "r", "-", "g", "r", "a", "d", "i", "e", "n", "t", "(", ",", "#", "0", "0", "0", ")">>, <<"l", "i", "n", "e", "a", "r", "-", "g", "r", "a", "d", "i", "e", "n", "t", "(", "r", "e", "d", ",", " ", "b", "l", "u", "e", ")">>,
       <<"l", "i", "n", "e", "a", "r", "-", "g", "r", "a", "d", "i", "e", "n", "t", "(", "4", "5", "d", "e", "g", ",", " ", "9", "0", "d", "e", "g", ",", " ", "#", "0", "0", "0", ")">>, <<"l", "i", "n", "e", "a", "r", "-", "g", "r", "a", "d", "i", "e", "n", "t", "(", "#", "0", "0", "0", ",", " ", "#", "f", "f", "f", " ", "5", "0", "%", " ", "6", "0", "%", ")">>,
       <<"u", "r", "l", "(", "a", ".", "p", "n", "g", ")">> }}

GradientInputs ==
  [head : {<<"l", "i", "n", "e", "a", "r", "-", "g", "r", "a", "d", "i", "e", "n", "t", "(">>}, angle : {NoAngle, [word |-> <<"9", "0", "d", "e", "g">>]}, stops : StopLists]
    \cup [head : GradientHeads, angle : AngleLiterals \cup DirectionArgs,
          stops : {<<>>, <<<<>>>>, <<<<>>, <<>>>>, <<<<"0", "%">>, <<"1", "0", "0", "%">>>>}]
    \cup RawInputs

IsRaw(a) == "raw" \in DOMAIN a

AngleText(a) ==
  IF "word" \in DOMAIN a THEN a.word ELSE a.sign \o a.mag \o a.gap \o a.unit

StopText(stops, i) ==
  StopColor(i) \o (IF stops[i] = <<>> THEN <<>> ELSE <<" ">> \o stops[i])

\* The string passed to parseLinearGradient
Render(a) ==
  IF IsRaw(a) THEN a.raw
  ELSE a.head
         \o joinWith((IF AngleText(a.angle) = <<>> THEN <<>> ELSE <<AngleText(a.angle)>>)
                       \o [i \in 1..Len(a.stops) |-> StopText(a.stops, i)], <<",", " ">>)
         \o <<")">>

InitGradient ==
  /\ pc = "call"
  /\ fn = "parseLinearGradient"
  /\ arg \in GradientInputs
  /\ ret = Undefined
  /\ utils = "drop"
  /\ NoSteps

CallParseLinearGradient ==
  /\ pc = "call"
  /\ fn = "parseLinearGradient"
  /\ ret' \in parseLinearGradient(Render(arg))
  /\ pc' = "done"
  /\ UNCHANGED <<fn, arg, utils, stepVars>>

NextGradient == CallParseLinearGradient

SpecGradient == InitGradient /\ [][NextGradient]_vars

(***************************************************************************)
(* Properties of parseLinearGradient                                       *)
(***************************************************************************)
\* The call returned a gradient {angle, stops}
IsGradient(r) == IsOk(r) /\ "stops" \in DOMAIN r.ok

\* C12: the stops of every parsed linear-gradient are in ascending order of
\* position, no two adjacent stops have the same position, and every
\* position lies in [0,1].
C12_StopsSortedDistinctInUnit ==
  (Returned("parseLinearGradient") /\ IsGradient(ret)) =>
    /\ \A i \in 1..Len(ret.ok.stops) : InUnit(ret.ok.stops[i].position, 1)
    /\ \A i \in 1..(Len(ret.ok.stops) - 1) :
         Less(ret.ok.stops[i].position, ret.ok.stops[i + 1].position)

\* The packed color 0xiiiiii of the i-th stop
StopColorValue(i) == Big(FALSE, <<i, i, i, i, i, i>>)

HasExplicitPosition(a) == ~IsRaw(a) /\ \E i \in 1..Len(a.stops) : a.stops[i] # <<>>

\* min(1, max(0, p))
MinMax(p) ==
  IF IsNaN(p) THEN p
  ELSE IF Less(p, Num(0, 1)) THEN Num(0, 1)
  ELSE IF Less(Num(1, 1), p) THEN Num(1, 1)
  ELSE p

\* The position the i-th input stop is given when some stop has a position
AssignedPosition(a, i) ==
  IF i = 1 THEN Num(0, 1)
  ELSE IF i = Len(a.stops) THEN Num(1, 1)
  ELSE MinMax(parsePositionToken(a.stops[i]))

HasNaNPosition(a) ==
  \E i \in 2..(Len(a.stops) - 1) :
    a.stops[i] # <<>> /\ IsNaN(parsePositionToken(a.stops[i]))

IsLiteralAngle(a) ==
  /\ "unit" \in DOMAIN a
  /\ toLowerCaseStr(a.unit) \in {<<"d", "e", "g">>, <<"t", "u", "r", "n">>, <<"r", "a", "d">>}
  /\ a.mag[Len(a.mag)] # "."

\* The angle in degrees a literal denotes: deg v, turn 360 v, rad 180 v / pi
DegreesOf(a) ==
  IF toLowerCaseStr(a.unit) = <<"d", "e", "g">> THEN parseFloat(a.sign \o a.mag)
  ELSE IF toLowerCaseStr(a.unit) = <<"t", "u", "r", "n">> THEN Times(parseFloat(a.sign \o a.mag), 360)
  ELSE OverPi(Times(parseFloat(a.sign \o a.mag), 180))

\* a - e is a whole multiple of 360
Congruent360(a, e) ==
  IF IsTiny(e) \/ IsTiny(a) THEN a = e
  ELSE IF IsOverPi(e) \/ IsOverPi(a)
  THEN IsOverPi(a) /\ IsOverPi(e) /\ a.overPi = e.overPi /\ (a.plus - e.plus) % 360 = 0
  ELSE (a.num.n * e.num.d - e.num.n * a.num.d) % (360 * a.num.d * e.num.d) = 0

\* 0 <= a < 360
InTurn(a) ==
  IF IsTiny(a) THEN ~a.tiny
  ELSE IF IsOverPi(a)
  THEN ~Less(OverPiLo(a), Num(0, 1)) /\ Less(OverPiHi(a), Num(360, 1))
  ELSE ~Less(a, Num(0, 1)) /\ Less(a, Num(360, 1))

\* C14: the angle of a linear-gradient with a literal angle argument is the
\* value in degrees reduced modulo 360 into [0,360): congruent to the input
\* modulo 360, never negative and never 360 or more.
C14_AngleWrappedIntoTurn ==
  (Returned("parseLinearGradient") /\ IsGradient(ret) /\ ~IsRaw(arg)
     /\ IsLiteralAngle(arg.angle)) =>
    /\ Congruent360(ret.ok.angle, DegreesOf(arg.angle))
    /\ InTurn(ret.ok.angle)

IsOuterForm(s) ==
  /\ Len(s) >= 17
  /\ toLowerCaseStr(Take(s, 16)) = <<"l", "i", "n", "e", "a", "r", "-", "g", "r", "a", "d", "i", "e", "n", "t", "(">>
  /\ endsWith(s, ")")

\* C15: parseLinearGradient fails when fewer than two color stops follow
\* the optional angle or direction argument, and fails when the input, other
\* than 'none', is not of the form linear-gradient(...); every gradient it
\* returns has at least two stops.
C15_FewerThanTwoStopsFails ==
  Returned("parseLinearGradient") =>
    /\ (~IsRaw(arg) /\ Len(arg.stops) < 2) => IsThrow(ret)
    /\ (Render(arg) # <<"n", "o", "n", "e">> /\ ~IsOuterForm(Render(arg))) => IsThrow(ret)
    /\ IsGradient(ret) => Len(ret.ok.stops) >= 2

C15_Witness ==
  /\ Returned("parseLinearGradient")
  /\ ~IsRaw(arg)
  /\ AngleText(arg.angle) = <<"9", "0", "d", "e", "g">>
  /\ Len(arg.stops) = 1
  /\ IsThrow(ret)

(***************************************************************************)
(* style-parsing.ts: parseBoxShadow                                        *)
(***************************************************************************)
IsLetter(c) == (\E i \in 1..26 : LowerLetters[i] = c) \/ IsUpper(c)

\* /^(#|rgb|rgba|hsl|hsla|[a-zA-Z]+)/.test(part)
colorRegexTest(part) == part # <<>> /\ (part[1] = "#" \/ IsLetter(part[1]))

\* parseBoxShadow with inset left false
parseBoxShadow_neverInset(source) ==
  LET shadow(color, inset, lengthValues) ==
        IF IsThrow(color) THEN Throw("Invalid box-shadow color")
        ELSE Ok([color |-> color.ok,
                 offset_x |-> parseLengthUnit(Str(lengthValues[1]), 1),
                 offset_y |-> parseLengthUnit(Str(lengthValues[2]), 2),
                 blur_radius |-> parseLengthUnit(Str(IF Len(lengthValues) >= 3
                                                     THEN lengthValues[3] ELSE <<"0", "p", "x">>), 3),
                 spread_radius |-> parseLengthUnit(Str(IF Len(lengthValues) >= 4
                                                       THEN lengthValues[4] ELSE <<"0", "p", "x">>), 4),
                 inset |-> FALSE])
      format(colorPart, inset, lengthValues) ==
        IF Len(lengthValues) < 2 \/ Len(lengthValues) > 4
        THEN Throw("Invalid box-shadow format")
        ELSE shadow(parseColor(colorPart), inset, lengthValues)
      loop(parts, startIndex) ==
        IF colorRegexTest(parts[Len(parts)]) /\ startIndex < Len(parts)
        THEN format(parts[Len(parts)], startIndex = 1, SubSeq(parts, startIndex + 1, Len(parts) - 1))
        ELSE format(<<"b", "l", "a", "c", "k">>, startIndex = 1, SubSeq(parts, startIndex + 1, Len(parts)))
      check(parts) ==
        IF Len(parts) < 2 THEN Throw("Invalid box-shadow")
        ELSE loop(parts, IF parts[1] = <<"i", "n", "s", "e", "t">> THEN 1 ELSE 0)
  IN  check(splitWhitespace(trim(source)))

\* startIndex is the 0-based index of the first part that is not 'inset'
parseBoxShadow(source) ==
  LET shadow(color, inset, lengthValues) ==
        IF IsThrow(color) THEN Throw("Invalid box-shadow color")
        ELSE Ok([color |-> color.ok,
                 offset_x |-> parseLengthUnit(Str(lengthValues[1]), 1),
                 offset_y |-> parseLengthUnit(Str(lengthValues[2]), 2),
                 blur_radius |-> parseLengthUnit(Str(IF Len(lengthValues) >= 3
                                                     THEN lengthValues[3] ELSE <<"0", "p", "x">>), 3),
                 spread_radius |-> parseLengthUnit(Str(IF Len(lengthValues) >= 4
                                                       THEN lengthValues[4] ELSE <<"0", "p", "x">>), 4),
                 inset |-> inset])
      format(colorPart, inset, lengthValues) ==
        IF Len(lengthValues) < 2 \/ Len(lengthValues) > 4
        THEN Throw("Invalid box-shadow format")
        ELSE shadow(parseColor(colorPart), inset, lengthValues)
      loop(parts, startIndex) ==
        IF colorRegexTest(parts[Len(parts)]) /\ startIndex < Len(parts)
        THEN format(parts[Len(parts)], startIndex = 1, SubSeq(parts, startIndex + 1, Len(parts) - 1))
        ELSE format(<<"b", "l", "a", "c", "k">>, startIndex = 1, SubSeq(parts, startIndex + 1, Len(parts)))
      check(parts) ==
        IF Len(parts) < 2 THEN Throw("Invalid box-shadow")
        ELSE loop(parts, IF parts[1] = <<"i", "n", "s", "e", "t">> THEN 1 ELSE 0)
  IN  check(splitWhitespace(trim(source)))

(***************************************************************************)
(* Calls of parseBoxShadow: arg is the parts [inset, lengths, color] of    *)
(* the string, an absent color being the empty token                       *)
(***************************************************************************)
ShadowLengths == {<<"2", "p", "x">>, <<"-", "3", "p", "x">>, <<"5", "0", "%">>, <<"0">>}

ShadowColors ==
  {<<>>, <<"#", "0", "0", "0", "0", "0", "0">>, <<"#", "f", "0", "0">>, <<"r", "g", "b", "(", "2", "5", "5", ",", "0", ",", "0", ")">>, <<"#", "f", "f", "0", "0", "0", "0", "8", "0">>, <<"r", "e", "d">>, <<"#", "z", "z", "z">>}

ShadowInputs ==
  [inset : BOOLEAN,
   lengths : UNION {[1..n -> ShadowLengths] : n \in 0..MaxShadowLengths},
   color : ShadowColors]

RenderShadow(a) ==
  joinWith((IF a.inset THEN <<<<"i", "n", "s", "e", "t">>>> ELSE <<>>) \o a.lengths
             \o (IF a.color = <<>> THEN <<>> ELSE <<a.color>>), <<" ">>)

InitBoxShadow ==
  /\ pc = "call"
  /\ fn = "parseBoxShadow"
  /\ arg \in ShadowInputs
  /\ ret = Undefined
  /\ utils = "drop"
  /\ NoSteps

CallParseBoxShadow ==
  /\ pc = "call"
  /\ fn = "parseBoxShadow"
  /\ ret' = parseBoxShadow(RenderShadow(arg))
  /\ pc' = "done"
  /\ UNCHANGED <<fn, arg, utils, stepVars>>

NextBoxShadow == CallParseBoxShadow

SpecBoxShadow == InitBoxShadow /\ [][NextBoxShadow]_vars

(***************************************************************************)
(* Properties of parseBoxShadow                                            *)
(***************************************************************************)
\* C16: a box-shadow with 2 to 4 length values, optionally after 'inset',
\* and no trailing color token parses successfully and its color is black.
C16_MissingColorIsBlack ==
  (Returned("parseBoxShadow") /\ arg.color = <<>> /\ Len(arg.lengths) \in 2..4) =>
    /\ IsOk(ret)
    /\ IsBig(ret.ok.color) /\ HexValue(ret.ok.color.hex) = 0

\* The i-th length of the shadow, 0 when it is absent
ShadowLength(a, i) ==
  IF i <= Len(a.lengths) THEN parseLengthUnit(Str(a.lengths[i]), i) ELSE Num(0, 1)

\* C17: '[inset] L1 L2 [L3 [L4]] C' with C a valid color gives offset_x = L1,
\* offset_y = L2, blur_radius = L3 or 0, spread_radius = L4 or 0,
\* color = parseColor(C) and inset true exactly when the first token is
\* 'inset'; with fewer than 2 or more than 4 lengths parsing fails.
C17_BoxShadowFields ==
  (Returned("parseBoxShadow") /\ arg.color # <<>> /\ IsOk(parseColor(arg.color))) =>
    IF Len(arg.lengths) \in 2..4
    THEN ret = Ok([color |-> parseColor(arg.color).ok,
                   offset_x |-> ShadowLength(arg, 1),
                   offset_y |-> ShadowLength(arg, 2),
                   blur_radius |-> ShadowLength(arg, 3),
                   spread_radius |-> ShadowLength(arg, 4),
                   inset |-> arg.inset])
    ELSE IsThrow(ret)

C17_Witness ==
  /\ Returned("parseBoxShadow")
  /\ arg = [inset |-> TRUE, lengths |-> <<<<"2", "p", "x">>, <<"-", "3", "p", "x">>, <<"5", "0", "%">>>>, color |-> <<"#", "f", "0", "0">>]
  /\ ret = Ok([color |-> Big(FALSE, <<15, 15, 0, 0, 0, 0>>),
               offset_x |-> Num(2, 1),
               offset_y |-> Num(-3, 1),
               blur_radius |-> percentage(Num(50, 1), 3),
               spread_radius |-> Num(0, 1),
               inset |-> TRUE])

(***************************************************************************)
(* Grid templates (src/unnamed/part_014)                                   *)
(*                                                                         *)
(* A call that never returns has the result Diverges.                      *)
(***************************************************************************)
Diverges == [diverges |-> TRUE]

IsDiverges(r) == "diverges" \in DOMAIN r

\* parseLengthUnit of part_014: 'auto' when the value has no leading number
parseLengthUnitAuto(value, id) ==
  LET switch(numValue, unit) ==
        IF unit = <<"%">> THEN percentage(numValue, id)
        ELSE IF unit = <<"r", "e", "m">> THEN rem(numValue, id)
        ELSE IF unit = <<"e", "m">> THEN em(numValue, id)
        ELSE IF unit = <<"v", "h">> THEN vh(numValue, id)
        ELSE IF unit = <<"v", "w">> THEN vw(numValue, id)
        ELSE numValue
      match(s, sign, k) ==
        IF k = 0 THEN Str(<<"a", "u", "t", "o">>)
        ELSE switch(parseFloat(Take(s, sign + k)), Drop(s, sign + k))
      signed(s, sign) == match(s, sign, SpanLen(Drop(s, sign), DecChars \cup {"."}))
  IN  IF IsNumber(value) THEN value
      ELSE IF value.str \in LengthKeywords THEN value
      ELSE signed(value.str, IF value.str # <<>> /\ value.str[1] = "-" THEN 1 ELSE 0)

\* input.indexOf(c, i), 1-based; 0 when c does not occur from i on
indexOf(input, c, i) ==
  IF \E j \in i..Len(input) : input[j] = c
  THEN CHOOSE j \in i..Len(input) : input[j] = c /\ \A k \in i..(j - 1) : input[k] # c
  ELSE 0

\* namesStr ? namesStr.split(/\s+/) : []
namesOf(namesStr) == IF namesStr = <<>> THEN <<>> ELSE splitWhitespace(namesStr)

RECURSIVE tokenizeFrom(_, _), tokenizeNames(_, _, _), tokenizeSize(_, _, _)
\* The tokens the loop of tokenizeGridTrackList pushes from index i on
\* (1-based), and whether the loop runs forever
tokenizeFrom(input, i) ==
  IF i + SpanLen(Drop(input, i - 1), Whitespace) > Len(input)
  THEN [tokens |-> <<>>, diverges |-> FALSE]
  ELSE IF input[i + SpanLen(Drop(input, i - 1), Whitespace)] = "["
  THEN tokenizeNames(input, i + SpanLen(Drop(input, i - 1), Whitespace),
                     indexOf(input, "]", i + SpanLen(Drop(input, i - 1), Whitespace)))
  ELSE tokenizeSize(input, i + SpanLen(Drop(input, i - 1), Whitespace),
                    SpanLen(Drop(input, i + SpanLen(Drop(input, i - 1), Whitespace) - 1),
                            {input[j] : j \in 1..Len(input)} \ (Whitespace \cup {"["})))

\* The tokens from a '[' at index i whose ']' is at bracketEnd; without a ']'
\* the size is empty and i stays where it is
tokenizeNames(input, i, bracketEnd) ==
  IF bracketEnd = 0 THEN [tokens |-> <<>>, diverges |-> TRUE]
  ELSE [tokens |->
          <<[type |-> "names", value |-> namesOf(trim(SubSeq(input, i + 1, bracketEnd - 1)))]>>
            \o tokenizeFrom(input, bracketEnd + 1).tokens,
        diverges |-> tokenizeFrom(input, bracketEnd + 1).diverges]

\* The tokens from the size of n characters at index i
tokenizeSize(input, i, n) ==
  [tokens |-> <<[type |-> "size", value |-> SubSeq(input, i, i + n - 1)]>>
                \o tokenizeFrom(input, i + n).tokens,
   diverges |-> tokenizeFrom(input, i + n).diverges]

tokenizeGridTrackList(input) == tokenizeFrom(input, 1)

\* The size of a size token
gridTrackSize(value) ==
  IF Len(value) >= 2 /\ SubSeq(value, Len(value) - 1, Len(value)) = <<"f", "r">>
  THEN [fr |-> parseFloat(Take(value, Len(value) - 2))]
  ELSE parseLengthUnitAuto(Str(value), 0)

RECURSIVE repeatTracksFrom(_, _, _)
\* The loop of parseGridRepeatTracks from token i on
repeatTracksFrom(tokens, i, pendingNames) ==
  IF i > Len(tokens) THEN <<>>
  ELSE IF tokens[i].type = "names"
  THEN repeatTracksFrom(tokens, i + 1, pendingNames \o tokens[i].value)
  ELSE <<[size |-> gridTrackSize(tokens[i].value), names |-> pendingNames]>>
         \o repeatTracksFrom(tokens, i + 1, <<>>)

parseGridRepeatTracks(trackSizes) ==
  LET loop(tokens) ==
        IF tokens.diverges THEN Diverges ELSE Ok(repeatTracksFrom(tokens.tokens, 1, <<>>))
  IN  loop(tokenizeGridTrackList(trackSizes))

RECURSIVE simpleTracksFrom_pending(_, _, _)
\* The loop of parseSimpleTrackSizes keeping the pending names after a size
simpleTracksFrom_pending(tokens, i, pendingNames) ==
  IF i > Len(tokens) THEN <<>>
  ELSE IF tokens[i].type = "names"
  THEN simpleTracksFrom_pending(tokens, i + 1, pendingNames \o tokens[i].value)
  ELSE <<IF pendingNames # <<>>
         THEN [repeat |-> <<IntToBig(1), <<[size |-> gridTrackSize(tokens[i].value),
                                             names |-> pendingNames]>>>>]
         ELSE [single |-> gridTrackSize(tokens[i].value)]>>
         \o simpleTracksFrom_pending(tokens, i + 1, pendingNames)

RECURSIVE simpleTracksFrom(_, _, _)
\* The loop of parseSimpleTrackSizes from token i on
simpleTracksFrom(tokens, i, pendingNames) ==
  IF i > Len(tokens) THEN <<>>
  ELSE IF tokens[i].type = "names"
  THEN simpleTracksFrom(tokens, i + 1, pendingNames \o tokens[i].value)
  ELSE <<IF pendingNames # <<>>
         THEN [repeat |-> <<IntToBig(1), <<[size |-> gridTrackSize(tokens[i].value),
                                             names |-> pendingNames]>>>>]
         ELSE [single |-> gridTrackSize(tokens[i].value)]>>
         \o simpleTracksFrom(tokens, i + 1, <<>>)

parseSimpleTrackSizes(trackFunction) ==
  LET loop(tokens) ==
        IF tokens.diverges THEN Diverges ELSE Ok(simpleTracksFrom(tokens.tokens, 1, <<>>))
  IN  loop(tokenizeGridTrackList(trackFunction))

\* The groups [repetition, trackSizes] of /repeat\(([^,]+),\s*(.+)\)/ matched
\* at index p: the count runs to the first comma, the tracks to the last ')'
repeatMatchAt(input, p) ==
  LET groups(comma, close, spaces) ==
        IF comma = 0 \/ comma = p + 7 \/ close < comma + 2 THEN Undefined
        ELSE [repetition |-> SubSeq(input, p + 7, comma - 1),
              trackSizes |-> SubSeq(input,
                               comma + 1 + (IF spaces < close - comma - 2 THEN spaces
                                            ELSE close - comma - 2),
                               close - 1)]
      closing(comma) ==
        groups(comma,
               IF \E j \in 1..Len(input) : input[j] = ")"
               THEN CHOOSE j \in 1..Len(input) :
                      input[j] = ")" /\ \A k \in (j + 1)..Len(input) : input[k] # ")"
               ELSE 0,
               IF comma = 0 THEN 0 ELSE SpanLen(Drop(input, comma), Whitespace))
  IN  IF SubSeq(input, p, p + 6) # <<"r", "e", "p", "e", "a", "t", "(">> THEN Undefined
      ELSE closing(indexOf(input, ",", p + 7))

\* trackFunction.match(/repeat\(([^,]+),\s*(.+)\)/): the leftmost match
repeatMatchOf(input) ==
  IF \E p \in 1..(Len(input) - 6) : ~IsUndefined(repeatMatchAt(input, p))
  THEN repeatMatchAt(input,
         CHOOSE p \in 1..(Len(input) - 6) :
           /\ ~IsUndefined(repeatMatchAt(input, p))
           /\ \A q \in 1..(p - 1) : IsUndefined(repeatMatchAt(input, q)))
  ELSE Undefined

\* The components, Undefined, or Diverges
parseRepeatFunction(match) ==
  LET components(repetitionValue, sizes) ==
        IF IsDiverges(sizes) THEN sizes
        ELSE Ok(<<[repeat |-> <<repetitionValue, sizes.ok>>]>>)
      count(numRepetition) ==
        IF IsNaN(numRepetition) THEN Undefined
        ELSE components(numRepetition, parseGridRepeatTracks(match.trackSizes))
  IN  IF match.repetition = <<"a", "u", "t", "o", "-", "f", "i", "l", "l">> \/ match.repetition = <<"a", "u", "t", "o", "-", "f", "i", "t">>
      THEN components(Str(match.repetition), parseGridRepeatTracks(match.trackSizes))
      ELSE count(parseInt(match.repetition, 10))

parseGridTemplateComponent(trackFunction) ==
  LET repeat(result) ==
        IF IsUndefined(result) THEN Throw("Invalid repeat function") ELSE result
      template(repeatMatch) ==
        IF ~IsUndefined(repeatMatch) THEN repeat(parseRepeatFunction(repeatMatch))
        ELSE parseSimpleTrackSizes(trackFunction)
  IN  template(repeatMatchOf(trackFunction))

(***************************************************************************)
(* Calls of parseGridTemplateComponent: arg is the parts of the string,    *)
(* [count, items, tight]; an item is a size token or a group of names,     *)
(* count is the first argument of repeat() or NoRepeat                     *)
(***************************************************************************)
NoRepeat == <<"n", "o", "n", "e", "!">>

GridCounts ==
  {NoRepeat, <<"3">>, <<"1", "2">>, <<"a", "u", "t", "o", "-", "f", "i", "l", "l">>, <<"a", "u", "t", "o", "-", "f", "i", "t">>, <<"0">>, <<"-", "1">>, <<"1", ".", "5">>, <<"x">>}

GridItems ==
  {[size |-> <<"1", "f", "r">>], [size |-> <<"1", "0", "0", "p", "x">>],
   [names |-> <<<<"a">>>>], [names |-> <<<<"b">>, <<"c">>>>], [names |-> <<>>]}

GridInputs ==
  [count : GridCounts,
   items : UNION {[1..n -> GridItems] : n \in 0..MaxGridItems},
   tight : BOOLEAN]

IsSizeItem(item) == "size" \in DOMAIN item

ItemText(item) ==
  IF IsSizeItem(item) THEN item.size ELSE <<"[">> \o joinWith(item.names, <<" ">>) \o <<"]">>

RECURSIVE TrackListText(_, _)
\* The items, separated by a space; a tight list has none next to a bracket
TrackListText(items, tight) ==
  IF items = <<>> THEN <<>>
  ELSE IF Len(items) = 1 THEN ItemText(items[1])
  ELSE ItemText(items[1])
         \o (IF tight /\ ~(IsSizeItem(items[1]) /\ IsSizeItem(items[2])) THEN <<>> ELSE <<" ">>)
         \o TrackListText(Tail(items), tight)

\* Size tokens before and after a repeat(), each set off by a space
GridSizes == {<<"1", "0", "0", "p", "x">>, <<"2", "f", "r">>}

GridMixedInputs ==
  [before : UNION {SeqsOf(GridSizes, n) : n \in 0..2},
   count : {<<"2">>, <<"a", "u", "t", "o", "-", "f", "i", "l", "l">>},
   items : UNION {SeqsOf({[size |-> <<"1", "f", "r">>], [size |-> <<"1", "0", "0", "p", "x">>]}, n) : n \in 1..2},
   tight : {FALSE},
   after : UNION {SeqsOf(GridSizes, n) : n \in 0..2}]

RenderGrid(a) ==
  LET repeat == <<"r", "e", "p", "e", "a", "t", "(">> \o a.count \o <<",", " ">> \o TrackListText(a.items, a.tight) \o <<")">>
  IN  IF a.count = NoRepeat THEN TrackListText(a.items, a.tight)
      ELSE IF "before" \in DOMAIN a
      THEN joinWith(a.before \o <<repeat>> \o a.after, <<" ">>)
      ELSE repeat

InitGrid ==
  /\ pc = "call"
  /\ fn = "parseGridTemplateComponent"
  /\ arg \in GridInputs
  /\ ret = Undefined
  /\ utils = "drop"
  /\ NoSteps

CallParseGridTemplateComponent ==
  /\ pc = "call"
  /\ fn = "parseGridTemplateComponent"
  /\ ret' = parseGridTemplateComponent(RenderGrid(arg))
  /\ pc' = "done"
  /\ UNCHANGED <<fn, arg, utils, stepVars>>

NextGrid == CallParseGridTemplateComponent

InitGridMixed ==
  /\ pc = "call"
  /\ fn = "parseGridTemplateComponent"
  /\ arg \in GridMixedInputs
  /\ ret = Undefined
  /\ utils = "drop"
  /\ NoSteps

SpecGridMixed == InitGridMixed /\ [][NextGrid]_vars

SpecGrid == InitGrid /\ [][NextGrid]_vars

(***************************************************************************)
(* Properties of parseGridTemplateComponent                                *)
(***************************************************************************)
\* The size a size token of the inputs denotes
SizeOfToken(token) == IF token = <<"1", "f", "r">> THEN [fr |-> Num(1, 1)] ELSE Num(100, 1)

RECURSIVE NamesBefore(_, _)
\* The names of the groups that precede item i without a size in between
NamesBefore(items, i) ==
  IF i > 1 /\ ~IsSizeItem(items[i - 1])
  THEN NamesBefore(items, i - 1) \o items[i - 1].names
  ELSE <<>>

RECURSIVE NamedTracks(_, _)
\* The named tracks of the sizes among the items i..Len(items)
NamedTracks(items, i) ==
  IF i > Len(items) THEN <<>>
  ELSE (IF IsSizeItem(items[i])
        THEN <<[size |-> SizeOfToken(items[i].size), names |-> NamesBefore(items, i)]>>
        ELSE <<>>) \o NamedTracks(items, i + 1)

IsRepeatCount(count) ==
  \/ count \in {<<"a", "u", "t", "o", "-", "f", "i", "l", "l">>, <<"a", "u", "t", "o", "-", "f", "i", "t">>}
  \/ /\ count # <<>>
     /\ \A i \in 1..Len(count) : count[i] \in DecChars
     /\ DecValue(count) > 0

CountValue(count) ==
  IF count \in {<<"a", "u", "t", "o", "-", "f", "i", "l", "l">>, <<"a", "u", "t", "o", "-", "f", "i", "t">>} THEN Str(count)
  ELSE IntToBig(DecValue(count))

\* C18: parseGridTemplateComponent on repeat(count, tracks) gives exactly
\* one Repeat holding the count and the parsed tracks when count is a
\* positive integer, auto-fill or auto-fit, and fails for any other count.
C18_RepeatCount ==
  (Returned("parseGridTemplateComponent") /\ arg.count # NoRepeat /\ arg.items # <<>>) =>
    IF IsRepeatCount(arg.count)
    THEN ret = Ok(<<[repeat |-> <<CountValue(arg.count), NamedTracks(arg.items, 1)>>]>>)
    ELSE IsThrow(ret)

\* C19: the names of each [name ...] group attach to the next size, those of
\* several groups before one size in input order, those after the last size
\* to nothing; outside repeat() a size with names is Repeat(1, [{size,
\* names}]) and a size without names Single(size); inside repeat() every size
\* is a named track with its names.
C19_NamesAttachToNextSize ==
  Returned("parseGridTemplateComponent") =>
    /\ arg.count = NoRepeat =>
         ret = Ok([i \in 1..Len(NamedTracks(arg.items, 1)) |->
                     IF NamedTracks(arg.items, 1)[i].names # <<>>
                     THEN [repeat |-> <<IntToBig(1), <<NamedTracks(arg.items, 1)[i]>>>>]
                     ELSE [single |-> NamedTracks(arg.items, 1)[i].size]])
    /\ (IsRepeatCount(arg.count) /\ arg.items # <<>>) =>
         /\ IsOk(ret)
         /\ Len(ret.ok) = 1
         /\ ret.ok[1].repeat[2] = NamedTracks(arg.items, 1)

C19_Witness ==
  /\ Returned("parseGridTemplateComponent")
  /\ arg.count = NoRepeat
  /\ arg.items = <<[names |-> <<<<"a">>>>], [names |-> <<<<"b">>, <<"c">>>>], [size |-> <<"1", "f", "r">>],
                   [size |-> <<"1", "0", "0", "p", "x">>]>>
  /\ ret = Ok(<<[repeat |-> <<IntToBig(1), <<[size |-> [fr |-> Num(1, 1)],
                                              names |-> <<<<"a">>, <<"b">>, <<"c">>>>]>>>>],
                [single |-> Num(100, 1)]>>)

(***************************************************************************)
(* Calls of parseStyle on the closed-set properties                        *)
(***************************************************************************)
ClosedSetProps == <<<<"d", "i", "s", "p", "l", "a", "y">>, <<"p", "o", "s", "i", "t", "i", "o", "n">>, <<"t", "e", "x", "t", "O", "v", "e", "r", "f", "l", "o", "w">>, <<"g", "r", "i", "d", "A", "u", "t", "o", "F", "l", "o", "w">>>>

\* The values the property of index i takes: each member of its set as the
\* input writes it, other keywords, a global keyword, prefixed values
ClosedSetValues(i) ==
  {Absent, Str(<<"f", "a", "d", "e">>), Str(<<>>), Str(<<"i", "n", "h", "e", "r", "i", "t">>), Str(<<"-", "w", "e", "b", "k", "i", "t", "-", "b", "o", "x">>), Str(<<"-", "x">>)}
    \cup (CASE i = 1 -> {Str(<<"b", "l", "o", "c", "k">>), Str(<<"f", "l", "e", "x">>), Str(<<"g", "r", "i", "d">>), Str(<<"n", "o", "n", "e">>),
                         Str(<<"i", "n", "l", "i", "n", "e">>)}
            [] i = 2 -> {Str(<<"r", "e", "l", "a", "t", "i", "v", "e">>), Str(<<"a", "b", "s", "o", "l", "u", "t", "e">>), Str(<<"s", "t", "a", "t", "i", "c">>), Str(<<"f", "i", "x", "e", "d">>)}
            [] i = 3 -> {Str(<<"e", "l", "l", "i", "p", "s", "i", "s">>), Str(<<"c", "l", "i", "p">>)}
            [] i = 4 -> {Str(<<"r", "o", "w">>), Str(<<"c", "o", "l", "u", "m", "n">>), Str(<<"r", "o", "w", " ", "d", "e", "n", "s", "e">>),
                         Str(<<"c", "o", "l", "u", "m", "n", " ", "d", "e", "n", "s", "e">>), Str(<<"d", "e", "n", "s", "e">>), Str(<<"r", "o", "w", " ", " ", "d", "e", "n", "s", "e">>)})

ClosedSetSources ==
  {Object({<<ClosedSetProps[i], v[i]>> : i \in 1..4}) :
     v \in {w \in [1..4 -> UNION {ClosedSetValues(i) : i \in 1..4}] :
              \A i \in 1..4 : w[i] \in ClosedSetValues(i)}}

InitClosedSet ==
  /\ pc = "call"
  /\ fn = "parseStyle"
  /\ arg \in ClosedSetSources
  /\ ret = Undefined
  /\ utils \in {"drop", "strip"}
  /\ NoSteps

SpecClosedSet == InitClosedSet /\ [][NextStyle]_vars

\* The closed set of each emitted key
ClosedSets ==
  [k \in {<<"d", "i", "s", "p", "l", "a", "y">>, <<"p", "o", "s", "i", "t", "i", "o", "n">>, <<"t", "e", "x", "t", "_", "o", "v", "e", "r", "f", "l", "o", "w">>, <<"g", "r", "i", "d", "_", "a", "u", "t", "o", "_", "f", "l", "o", "w">>} |->
     IF k = <<"d", "i", "s", "p", "l", "a", "y">> THEN {Str(<<"b", "l", "o", "c", "k">>), Str(<<"f", "l", "e", "x">>), Str(<<"g", "r", "i", "d">>), Str(<<"n", "o", "n", "e">>)}
     ELSE IF k = <<"p", "o", "s", "i", "t", "i", "o", "n">> THEN {Str(<<"r", "e", "l", "a", "t", "i", "v", "e">>), Str(<<"a", "b", "s", "o", "l", "u", "t", "e">>)}
     ELSE IF k = <<"t", "e", "x", "t", "_", "o", "v", "e", "r", "f", "l", "o", "w">> THEN {Str(<<"e", "l", "l", "i", "p", "s", "i", "s">>), Str(<<"c", "l", "i", "p">>)}
     ELSE {Str(<<"r", "o", "w">>), Str(<<"c", "o", "l", "u", "m", "n">>), Str(<<"r", "o", "w", "-", "d", "e", "n", "s", "e">>), Str(<<"c", "o", "l", "u", "m", "n", "-", "d", "e", "n", "s", "e">>)}]

\* C20: for display, position, text-overflow and grid-auto-flow, whatever
\* string the input gives, parseStyle raises no error and the value it emits
\* under that key is a member of the closed set of the property.
C20_ClosedSetValues ==
  (Returned("parseStyle") /\ IsSource(arg)
     /\ DOMAIN arg.obj \subseteq {ClosedSetProps[i] : i \in 1..4}) =>
    /\ IsOk(ret)
    /\ IsBag(ret.ok) =>
         \A k \in DOMAIN ClosedSets \cap DOMAIN ret.ok.bag : ret.ok.bag[k] \in ClosedSets[k]

(***************************************************************************)
(* parseFontWeight (style-parsing.ts)                                      *)
(***************************************************************************)
\* The number a Number.parseInt result is
BigToNum(v) == IF IsNaN(v) THEN v ELSE Num(IF v.neg THEN -HexValue(v.hex) ELSE HexValue(v.hex), 1)

\* Math.min and Math.max of two numbers: NaN when either is NaN
mathMin(a, b) == IF IsNaN(a) \/ IsNaN(b) THEN NaN ELSE IF Less(b, a) THEN b ELSE a

mathMax(a, b) == IF IsNaN(a) \/ IsNaN(b) THEN NaN ELSE IF Less(a, b) THEN b ELSE a

\* Number.parseInt(s) without a radix: 16 after a 0x or 0X prefix, else 10
parseIntAuto(s) ==
  LET radix(u) ==
        IF startsWith(u, <<"0", "x">>) \/ startsWith(u, <<"0", "X">>) THEN 16 ELSE 10
      unsigned(t) == radix(IF t # <<>> /\ t[1] \in {"-", "+"} THEN Tail(t) ELSE t)
  IN  parseInt(s, unsigned(trimStart(s)))

parseFontWeight(fontWeight) ==
  LET string(numericWeight) ==
        IF ~IsNaN(numericWeight) THEN mathMax(Num(1, 1), mathMin(Num(1000, 1), numericWeight))
        ELSE Num(400, 1)
  IN  IF IsNumber(fontWeight) THEN mathMax(Num(1, 1), mathMin(Num(1000, 1), fontWeight))
      ELSE IF ~IsStr(fontWeight) THEN Num(400, 1)
      ELSE IF fontWeight.str = <<"n", "o", "r", "m", "a", "l">> THEN Num(400, 1)
      ELSE IF fontWeight.str = <<"b", "o", "l", "d">> THEN Num(700, 1)
      ELSE IF fontWeight.str = <<"l", "i", "g", "h", "t", "e", "r">> THEN Num(300, 1)
      ELSE IF fontWeight.str = <<"b", "o", "l", "d", "e", "r">> THEN Num(600, 1)
      ELSE string(BigToNum(parseIntAuto(fontWeight.str)))

(***************************************************************************)
(* Calls of parseFontWeight                                                *)
(***************************************************************************)
WeightDigits == {"0", "1", "5", "9"}

\* Halves from -2 to 1002, and NaN
WeightNumbers == {Num(n, 2) : n \in (-4)..2004} \cup {NaN}

\* Decimal literals: sign, 1..MaxWeightDigits digits, fraction
WeightNumericStrings ==
  {Str(sign \o int \o frac) :
     sign \in {<<>>, <<"-">>, <<"+">>},
     int \in UNION {SeqsOf(WeightDigits, n) : n \in 1..MaxWeightDigits},
     frac \in {<<>>, <<".", "5">>, <<".", "0">>}}

WeightKeywords == {Str(<<"n", "o", "r", "m", "a", "l">>), Str(<<"b", "o", "l", "d">>), Str(<<"l", "i", "g", "h", "t", "e", "r">>), Str(<<"b", "o", "l", "d", "e", "r">>)}

WeightOtherStrings ==
  {Str(<<"i", "n", "v", "a", "l", "i", "d">>), Str(<<>>), Str(<<"B", "o", "l", "d">>), Str(<<"n", "o", "r", "m", "a", "l", " ">>), Str(<<"1", "2", "a", "b", "c">>),
   Str(<<"a", "b", "c", "1", "2">>), Str(<<"7", " ", "0", "0">>), Str(<<"x">>), Str(<<"-">>), Str(<<".">>), Str(<<"i", "n", "h", "e", "r", "i", "t">>)}

WeightInputs ==
  WeightNumbers \cup WeightNumericStrings \cup WeightKeywords \cup WeightOtherStrings

InitFontWeight ==
  /\ pc = "call"
  /\ fn = "parseFontWeight"
  /\ arg \in WeightInputs
  /\ ret = Undefined
  /\ utils = "drop"
  /\ NoSteps

CallParseFontWeight ==
  /\ pc = "call"
  /\ fn = "parseFontWeight"
  /\ ret' = Ok(parseFontWeight(arg))
  /\ pc' = "done"
  /\ UNCHANGED <<fn, arg, utils, stepVars>>

NextFontWeight == CallParseFontWeight

SpecFontWeight == InitFontWeight /\ [][NextFontWeight]_vars

(***************************************************************************)
(* Properties of parseFontWeight                                           *)
(***************************************************************************)
\* v clamped to [1, 1000]
ClampedWeight(v) ==
  IF Less(v, Num(1, 1)) THEN Num(1, 1)
  ELSE IF Less(Num(1000, 1), v) THEN Num(1000, 1)
  ELSE v

KeywordWeight(s) ==
  IF s = <<"n", "o", "r", "m", "a", "l">> THEN Num(400, 1)
  ELSE IF s = <<"b", "o", "l", "d">> THEN Num(700, 1)
  ELSE IF s = <<"l", "i", "g", "h", "t", "e", "r">> THEN Num(300, 1)
  ELSE Num(600, 1)

\* C21: parseFontWeight never throws; it gives a number and a numeric string
\* clamped to [1, 1000] (unchanged inside the range), 400/700/300/600 for
\* normal/bold/lighter/bolder, and 400 for any other string.
C21_FontWeight ==
  Returned("parseFontWeight") =>
    /\ IsOk(ret)
    /\ IsNum(arg) => ret.ok = ClampedWeight(arg)
    /\ arg \in WeightKeywords => ret.ok = KeywordWeight(arg.str)
    /\ arg \in WeightNumericStrings => ret.ok = ClampedWeight(NumberOf(arg))
    /\ arg \in WeightOtherStrings => ret.ok = Num(400, 1)

(***************************************************************************)
(* Calls of parseLengthUnit, of style-parsing.ts and of part_014: arg is a *)
(* number, a literal [sign, int, frac, unit], a keyword, or another word   *)
(***************************************************************************)
LengthNumbers == {[number |-> Num(n, 2)] : n \in (-20)..20}

LengthUnits ==
  {<<>>, <<"p", "x">>, <<"%">>, <<"r", "e", "m">>, <<"e", "m">>, <<"v", "h">>, <<"v", "w">>, <<"p", "t">>, <<"R", "E", "M">>, <<" ", "p", "x">>, <<"x">>}

LengthLiterals ==
  [sign : {<<>>, <<"-">>, <<"+">>},
   int : UNION {SeqsOf({"0", "1", "5"}, n) : n \in 1..MaxLengthDigits},
   frac : {<<>>, <<".", "5">>, <<".", "2", "5">>},
   unit : LengthUnits]

LengthKeywordInputs == {[keyword |-> k] : k \in LengthKeywords}

\* Strings without a leading number
LengthWords ==
  {[word |-> w] : w \in {<<>>, <<"i", "n", "v", "a", "l", "i", "d">>, <<".">>, <<"-", ".">>, <<"-">>, <<".", ".">>, <<"p", "x">>, <<"-", "p", "x">>,
                          <<".", "p", "x">>, <<"a", "b", "c", "1", "0">>, <<"-", "-", "5">>, <<"A", "u", "t", "o">>, <<"%">>}}

LengthInputs == LengthNumbers \cup LengthLiterals \cup LengthKeywordInputs \cup LengthWords

\* The value passed to parseLengthUnit
LengthValue(a) ==
  IF "number" \in DOMAIN a THEN a.number
  ELSE IF "keyword" \in DOMAIN a THEN Str(a.keyword)
  ELSE IF "word" \in DOMAIN a THEN Str(a.word)
  ELSE Str(a.sign \o a.int \o a.frac \o a.unit)

InitLength ==
  /\ pc = "call"
  /\ fn \in {"parseLengthUnit", "parseLengthUnitAuto"}
  /\ arg \in LengthInputs
  /\ ret = Undefined
  /\ utils = "drop"
  /\ NoSteps

\* parseLengthUnit of style-parsing.ts
CallParseLengthUnit ==
  /\ pc = "call"
  /\ fn = "parseLengthUnit"
  /\ ret' = Ok(parseLengthUnit(LengthValue(arg), 0))
  /\ pc' = "done"
  /\ UNCHANGED <<fn, arg, utils, stepVars>>

\* parseLengthUnit of part_014
CallParseLengthUnitAuto ==
  /\ pc = "call"
  /\ fn = "parseLengthUnitAuto"
  /\ ret' = Ok(parseLengthUnitAuto(LengthValue(arg), 0))
  /\ pc' = "done"
  /\ UNCHANGED <<fn, arg, utils, stepVars>>

NextLength == CallParseLengthUnit \/ CallParseLengthUnitAuto

SpecLength == InitLength /\ [][NextLength]_vars

(***************************************************************************)
(* Properties of parseLengthUnit                                           *)
(***************************************************************************)
IsLengthLiteral(a) == "unit" \in DOMAIN a

\* The number the sign, digits and fraction of a literal denote
LiteralNumber(a) ==
  Num((IF a.sign = <<"-">> THEN -1 ELSE 1)
        * DecValue(a.int \o (IF a.frac = <<>> THEN <<>> ELSE Tail(a.frac))),
      Pow10(IF a.frac = <<>> THEN 0 ELSE Len(a.frac) - 1))

\* C22: parseLengthUnit never throws, and a string with no parseable
\* leading number (the empty string, a word, '.', '-.') gives Pixels(0).
C22_NoNumberIsZeroPixels ==
  (pc = "done" /\ fn \in {"parseLengthUnit", "parseLengthUnitAuto"}) =>
    /\ IsOk(ret)
    /\ "word" \in DOMAIN arg => ret.ok = Num(0, 1)

\* C23: parseLengthUnit gives Pixels(n) for the number n, Percentage(n),
\* Rem(n), Em(n), Vh(n), Vw(n) for n followed by %, rem, em, vh, vw,
\* Pixels(n) for n followed by px, nothing or any other unit, and the
\* keywords auto, min-content and max-content themselves.
C23_UnitDispatch ==
  Returned("parseLengthUnit") =>
    /\ "number" \in DOMAIN arg => ret = Ok(arg.number)
    /\ "keyword" \in DOMAIN arg => ret = Ok(Str(arg.keyword))
    /\ IsLengthLiteral(arg) =>
         ret = Ok(IF arg.unit = <<"%">> THEN percentage(LiteralNumber(arg), 0)
                  ELSE IF arg.unit = <<"r", "e", "m">> THEN rem(LiteralNumber(arg), 0)
                  ELSE IF arg.unit = <<"e", "m">> THEN em(LiteralNumber(arg), 0)
                  ELSE IF arg.unit = <<"v", "h">> THEN vh(LiteralNumber(arg), 0)
                  ELSE IF arg.unit = <<"v", "w">> THEN vw(LiteralNumber(arg), 0)
                  ELSE LiteralNumber(arg))

(***************************************************************************)
(* Calls of parseStyle on negative lengths                                 *)
(***************************************************************************)
\* A negative length as the input writes it, and the length it denotes
NegativeLengths ==
  {<<<<"-", "1", "0", "p", "x">>, Num(-10, 1)>>, <<<<"-", "5">>, Num(-5, 1)>>, <<<<"-", "0", ".", "5", "p", "x">>, Num(-1, 2)>>,
   <<<<"-", "2", "r", "e", "m">>, rem(Num(-2, 1), 0)>>, <<<<"-", "1", ".", "5", "e", "m">>, em(Num(-3, 2), 0)>>,
   <<<<"-", "5", "0", "%">>, percentage(Num(-50, 1), 0)>>, <<<<"-", ".", "5", "p", "x">>, Num(-1, 2)>>}

\* One or two length properties, each with a negative length
NegativeLengthSources ==
  {Object({<<p[1], Str(p[3][1])>>, <<p[2], Str(p[4][1])>>}) :
     p \in {q \in LengthProps \X {<<"w", "i", "d", "t", "h">>, <<"l", "e", "t", "t", "e", "r", "S", "p", "a", "c", "i", "n", "g">>}
                    \X NegativeLengths \X NegativeLengths :
              q[1] = q[2] => q[3] = q[4]}}

InitNegativeLength ==
  /\ pc = "call"
  /\ fn = "parseStyle"
  /\ arg \in NegativeLengthSources
  /\ ret = Undefined
  /\ utils \in {"drop", "strip"}
  /\ NoSteps

SpecNegativeLength == InitNegativeLength /\ [][NextStyle]_vars

\* The length the negative length string s denotes
NegativeLengthOf(s) == (CHOOSE v \in NegativeLengths : v[1] = s)[2]

\* C29: for a length property whose value is a negative number string such
\* as '-10px', parseStyle returns normally and emits the negative length.
C29_NegativeLengthEmitted ==
  (Returned("parseStyle") /\ arg \in NegativeLengthSources) =>
    /\ IsOk(ret)
    /\ IsBag(ret.ok)
    /\ \A k \in DOMAIN arg.obj :
         /\ camelToSnakeCase(k) \in DOMAIN ret.ok.bag
         /\ StripId(ret.ok.bag[camelToSnakeCase(k)]) = StripId(NegativeLengthOf(arg.obj[k].str))

(***************************************************************************)
(* tokenizeGridTrackList step by step (part_014): tokenizer holds the      *)
(* input and the locals i (0-based) and tokens; one step is one iteration  *)
(* of the outer while loop                                                 *)
(***************************************************************************)
TrackChars == {"1", "a", " ", "[", "]"}

TrackInputs == UNION {SeqsOf(TrackChars, n) : n \in 0..MaxTrackChars}

InitTokenizer ==
  /\ pc = "loop"
  /\ fn = "tokenizeGridTrackList"
  /\ arg \in TrackInputs
  /\ ret = Undefined
  /\ utils = "drop"
  /\ tokenizer = [input |-> arg, i |-> 0, tokens |-> <<>>]
  /\ renderer = Undefined
  /\ fontLoadMarker = {}
  /\ responses = <<>>
  /\ heap = <<>>
  /\ nodes = <<>>

\* The locals after one iteration that starts at i
iteration(input, i, tokens) ==
  LET size(j, n) ==
        [input |-> input, i |-> j + n,
         tokens |-> IF n > 0
                    THEN Append(tokens, [type |-> "size", value |-> SubSeq(input, j + 1, j + n)])
                    ELSE tokens]
      bracket(j, bracketEnd) ==
        IF bracketEnd # 0
        THEN [input |-> input, i |-> bracketEnd,
              tokens |-> Append(tokens,
                           [type |-> "names",
                            value |-> namesOf(trim(SubSeq(input, j + 2, bracketEnd - 1)))])]
        ELSE size(j, 0)
      skipped(j) ==
        IF j >= Len(input) THEN [input |-> input, i |-> j, tokens |-> tokens]
        ELSE IF input[j + 1] = "[" THEN bracket(j, indexOf(input, "]", j + 1))
        ELSE size(j, SpanLen(Drop(input, j),
                             {input[k] : k \in 1..Len(input)} \ (Whitespace \cup {"["})))
  IN  skipped(i + SpanLen(Drop(input, i), Whitespace))

\* while (i < input.length) { ... }
TokenizeIteration ==
  /\ pc = "loop"
  /\ fn = "tokenizeGridTrackList"
  /\ tokenizer.i < Len(tokenizer.input)
  /\ tokenizer' = iteration(tokenizer.input, tokenizer.i, tokenizer.tokens)
  /\ UNCHANGED <<pc, fn, arg, ret, utils, renderer, fontLoadMarker, responses, heap, nodes>>

\* return tokens
TokenizeReturn ==
  /\ pc = "loop"
  /\ fn = "tokenizeGridTrackList"
  /\ tokenizer.i >= Len(tokenizer.input)
  /\ ret' = Ok(tokenizer.tokens)
  /\ pc' = "done"
  /\ UNCHANGED <<fn, arg, utils, stepVars>>

NextTokenizer == TokenizeIteration \/ TokenizeReturn

SpecTokenizer == InitTokenizer /\ [][NextTokenizer]_vars

\* The loop is not suspended: an iteration that can change the state is taken
SpecTokenizerFair == SpecTokenizer /\ WF_vars(NextTokenizer)

\* C26: tokenizeGridTrackList terminates on every finite input string, also
\* on one with an unmatched '[' or a stray ']'.
C26_TokenizerTerminates == <>(pc = "done")

(***************************************************************************)
(* Properties of parseGridTemplateComponent on a repeat() among sizes      *)
(***************************************************************************)
\* The size of a size token standing alone
SingleOf(token) ==
  [single |-> IF token = <<"2", "f", "r">> THEN [fr |-> Num(2, 1)] ELSE Num(100, 1)]

\* C27: parseGridTemplateComponent keeps every track in left-to-right order:
\* for a repeat() with size tokens before or after it the output holds a
\* component for each of those sizes as well as the Repeat component.
C27_TracksAroundRepeatKept ==
  (Returned("parseGridTemplateComponent") /\ "before" \in DOMAIN arg) =>
    ret = Ok([k \in 1..Len(arg.before) |-> SingleOf(arg.before[k])]
             \o <<[repeat |-> <<CountValue(arg.count), NamedTracks(arg.items, 1)>>]>>
             \o [k \in 1..Len(arg.after) |-> SingleOf(arg.after[k])])

(***************************************************************************)
(* ImageResponse (part_032).  renderer is the module-level renderer:       *)
(* undefined, or [fonts, calls] with the fonts that finished loading and   *)
(* the font lists it was handed; fontLoadMarker is the set of marked       *)
(* fonts; responses holds, for each response under production, its fonts,  *)
(* the position of its stream's start(), the list it passed to             *)
(* loadFontsAsync and the fonts the renderer had when its render started.  *)
(* A font is an object, told apart by identity.  JavaScript runs a         *)
(* function up to its next await without interleaving, so that stretch is  *)
(* one step.                                                               *)
(***************************************************************************)
Fonts == {"inter", "geist"}

\* options.fonts ?? []: a font may be listed twice
FontLists == UNION {SeqsOf(Fonts, n) : n \in 0..2}

FontsOf(list) == {list[k] : k \in 1..Len(list)}

InitImageResponse ==
  /\ pc = "run"
  /\ fn = "ImageResponse"
  /\ arg = Undefined
  /\ ret = Undefined
  /\ utils = "drop"
  /\ tokenizer = Undefined
  /\ renderer = Undefined
  /\ fontLoadMarker = {}
  /\ responses = <<>>
  /\ heap = <<>>
  /\ nodes = <<>>

\* fonts.filter((font) => !fontLoadMarker.has(font)) without the filter
loadFonts_unfiltered(fonts) == fonts

\* The fontsToLoad of loadFonts
loadFonts(fonts) ==
  LET unmarked(font) == font \notin fontLoadMarker
  IN  SelectSeq(fonts, unmarked)

\* new ImageResponse(component, {fonts}) while no renderer exists: start()
\* runs getRenderer, which constructs the renderer with the fonts, marks
\* them and returns
ConstructFirst(fonts) ==
  /\ Len(responses) < MaxResponses
  /\ renderer = Undefined
  /\ renderer' = [fonts |-> FontsOf(fonts),
                  calls |-> <<[via |-> "constructor", fonts |-> fonts]>>]
  /\ fontLoadMarker' = fontLoadMarker \cup FontsOf(fonts)
  /\ responses' = Append(responses, [fonts |-> fonts, at |-> "renderer",
                                     fontsToLoad |-> <<>>, renderedWith |-> {}])
  /\ UNCHANGED <<pc, fn, arg, ret, utils, tokenizer, heap, nodes>>

\* new ImageResponse(component, {fonts}) with the renderer in place: start()
\* runs getRenderer up to await loadOptions: loadFonts filters and marks the
\* fonts and calls renderer.loadFontsAsync(fontsToLoad)
ConstructNext(fonts) ==
  /\ Len(responses) < MaxResponses
  /\ renderer # Undefined
  /\ renderer' = [renderer EXCEPT
                    !.calls = Append(@, [via |-> "loadFontsAsync", fonts |-> loadFonts(fonts)])]
  /\ fontLoadMarker' = fontLoadMarker \cup FontsOf(loadFonts(fonts))
  /\ responses' = Append(responses, [fonts |-> fonts, at |-> "loadFontsAsync",
                                     fontsToLoad |-> loadFonts(fonts), renderedWith |-> {}])
  /\ UNCHANGED <<pc, fn, arg, ret, utils, tokenizer, heap, nodes>>

\* The promise of renderer.loadFontsAsync(fontsToLoad) of response r settles:
\* the fonts are in the renderer, getRenderer returns
LoadFontsAsyncDone(r) ==
  /\ responses[r].at = "loadFontsAsync"
  /\ renderer' = [renderer EXCEPT !.fonts = @ \cup FontsOf(responses[r].fontsToLoad)]
  /\ responses' = [responses EXCEPT ![r].at = "renderer"]
  /\ UNCHANGED <<pc, fn, arg, ret, utils, tokenizer, fontLoadMarker, heap, nodes>>

\* const node = await fromJsx(component); renderer.renderAsync(node, ...)
RenderAsync(r) ==
  /\ responses[r].at = "renderer"
  /\ responses' = [responses EXCEPT ![r].at = "renderAsync",
                                    ![r].renderedWith = renderer.fonts]
  /\ UNCHANGED <<pc, fn, arg, ret, utils, tokenizer, renderer, fontLoadMarker, heap, nodes>>

\* controller.enqueue(image); controller.close()
Enqueue(r) ==
  /\ responses[r].at = "renderAsync"
  /\ responses' = [responses EXCEPT ![r].at = "closed"]
  /\ UNCHANGED <<pc, fn, arg, ret, utils, tokenizer, renderer, fontLoadMarker, heap, nodes>>

NextImageResponse ==
  \/ \E fonts \in FontLists : ConstructFirst(fonts)
  \/ \E fonts \in FontLists : ConstructNext(fonts)
  \/ \E r \in 1..Len(responses) : LoadFontsAsyncDone(r)
  \/ \E r \in 1..Len(responses) : RenderAsync(r)
  \/ \E r \in 1..Len(responses) : Enqueue(r)

SpecImageResponse == InitImageResponse /\ [][NextImageResponse]_vars

(***************************************************************************)
(* Properties of ImageResponse                                             *)
(***************************************************************************)
\* The calls (constructor or loadFontsAsync) that handed font to the renderer
CallsWith(font) ==
  {k \in 1..Len(renderer.calls) : font \in FontsOf(renderer.calls[k].fonts)}

C28_RenderAfterFontsLoaded ==
  \A r \in 1..Len(responses) :
    responses[r].at \in {"renderAsync", "closed"} =>
      FontsOf(responses[r].fonts) \subseteq responses[r].renderedWith

(***************************************************************************)
(* fromJsx on a list of elements (jsx.ts).  heap holds the style objects,  *)
(* each a function from property names to values, named by its index; an  *)
(* element is [type, style] with style the index of the object in its      *)
(* props or 0 without a style prop; nodes are the nodes made so far, each   *)
(* with the index of its style object or 0 without one.  arg keeps the      *)
(* elements and the style objects as they were passed.                      *)
(***************************************************************************)
EmptyStyle == [k \in {} |-> Undefined]

\* style-presets.ts, for the element types of the inputs
stylePresets ==
  [t \in {"h1", "p", "strong"} |->
     IF t = "h1"
     THEN [k \in {<<"f", "o", "n", "t", "S", "i", "z", "e">>, <<"m", "a", "r", "g", "i", "n">>, <<"f", "o", "n", "t", "W", "e", "i", "g", "h", "t">>} |->
             IF k = <<"f", "o", "n", "t", "S", "i", "z", "e">> THEN em(Num(2, 1), 0)
             ELSE IF k = <<"m", "a", "r", "g", "i", "n">> THEN Arr(<<em(Num(67, 100), 0), Num(0, 1)>>)
             ELSE Num(700, 1)]
     ELSE IF t = "p"
     THEN [k \in {<<"m", "a", "r", "g", "i", "n">>} |-> Arr(<<em(Num(1, 1), 0), Num(0, 1)>>)]
     ELSE [k \in {<<"f", "o", "n", "t", "W", "e", "i", "g", "h", "t">>} |-> Num(700, 1)]]

\* Object.assign(target, source)
ObjectAssign(target, source) ==
  [k \in DOMAIN target \cup DOMAIN source |->
     IF k \in DOMAIN source THEN source[k] ELSE target[k]]

ElementTypes == {"div", "h1", "p", "strong", "img"}

PassedStyles ==
  {EmptyStyle,
   [k \in {<<"c", "o", "l", "o", "r">>} |-> Str(<<"r", "e", "d">>)],
   [k \in {<<"f", "o", "n", "t", "W", "e", "i", "g", "h", "t">>, <<"m", "a", "r", "g", "i", "n">>} |-> IF k = <<"m", "a", "r", "g", "i", "n">> THEN Num(4, 1) ELSE Num(400, 1)]}

\* One to MaxElements elements over two style objects
JsxInputs ==
  [elements : UNION {[1..n -> [type : ElementTypes, style : 0..2]] : n \in 1..MaxElements},
   styles : [1..2 -> PassedStyles]]

InitFromJsx ==
  /\ pc = "convert"
  /\ fn = "fromJsx"
  /\ arg \in JsxInputs
  /\ ret = Undefined
  /\ utils = "drop"
  /\ tokenizer = Undefined
  /\ renderer = Undefined
  /\ fontLoadMarker = {}
  /\ responses = <<>>
  /\ heap = arg.styles
  /\ nodes = <<>>

\* The heap after extractStyleFromProps: without a style prop a new object {}
extractStyleFromProps(element) ==
  IF element.style = 0 THEN Append(heap, EmptyStyle) ELSE heap

\* The node of applyStyle: the style object when it has a key
styledNode(type, objects, style) ==
  [type |-> type, style |-> IF DOMAIN objects[style] # {} THEN style ELSE 0]

\* processReactElement from extractStyleFromProps on, for the next element
\* of the list: the style object of the props is the one the preset is
\* assigned to and the one the node refers to
processReactElement(element) ==
  LET node(type, objects, style) ==
        /\ heap' = objects
        /\ nodes' = Append(nodes, styledNode(type, objects, style))
      assign(objects, style) ==
        IF element.type = "img" THEN node("image", objects, style)
        ELSE IF element.type \in DOMAIN stylePresets
        THEN node("container",
                  [objects EXCEPT ![style] = ObjectAssign(@, stylePresets[element.type])],
                  style)
        ELSE node("container", objects, style)
  IN  assign(extractStyleFromProps(element),
             IF element.style = 0 THEN Len(heap) + 1 ELSE element.style)

ProcessReactElement ==
  /\ pc = "convert"
  /\ fn = "fromJsx"
  /\ Len(nodes) < Len(arg.elements)
  /\ processReactElement(arg.elements[Len(nodes) + 1])
  /\ UNCHANGED <<pc, fn, arg, ret, utils, tokenizer, renderer, fontLoadMarker, responses>>

\* return children.flat()
ReturnNodes ==
  /\ pc = "convert"
  /\ fn = "fromJsx"
  /\ Len(nodes) = Len(arg.elements)
  /\ ret' = Ok(nodes)
  /\ pc' = "done"
  /\ UNCHANGED <<fn, arg, utils, stepVars>>

NextFromJsx == ProcessReactElement \/ ReturnNodes

SpecFromJsx == InitFromJsx /\ [][NextFromJsx]_vars

(***************************************************************************)
(* Properties of fromJsx                                                   *)
(***************************************************************************)
\* The style of the node of an element converted alone with its own copy of
\* its style object
StyleConvertedAlone(element) ==
  IF element.type \in DOMAIN stylePresets
  THEN ObjectAssign(IF element.style = 0 THEN EmptyStyle ELSE arg.styles[element.style],
                    stylePresets[element.type])
  ELSE IF element.style = 0 THEN EmptyStyle ELSE arg.styles[element.style]

\* The style a node carries, the empty one when it has none
StyleOfNode(node) == IF node.style = 0 THEN EmptyStyle ELSE heap[node.style]

\* C30: fromJsx does not modify the style object passed in an element's
\* props: after the conversion it has the keys and values it had before, so
\* the node of each element has the style it has when the element is
\* converted with a copy of its own.
C30_StyleObjectsUnmodified ==
  Returned("fromJsx") =>
    /\ \A s \in DOMAIN arg.styles : heap[s] = arg.styles[s]
    /\ \A e \in 1..Len(arg.elements) :
         StyleOfNode(ret.ok[e]) = StyleConvertedAlone(arg.elements[e])

====
